---- MODULE Spec2Model ----
(***************************************************************************)
(* A model of the arsenal backtesting runtime: the execution engines, the  *)
(* data publishers (publisher/subscriber bus), the batch replay and the    *)
(* stock replay loop, the position book and adjustPosition.                *)
(*                                                                         *)
(* Units.  Prices are integers in hundredths (10.00 is 1000), so the stock *)
(* engine's tick of 0.01 is 1.  A commission rate is an integer number of  *)
(* ten-thousandths, and a commission is kept in hundredths/10000, so that  *)
(* effectivePrice * size * lotSize * rate is exact.                        *)
(* The position book computes in floats; its money is in the price unit.   *)
(* A field a Python object leaves None is left out of the record.          *)
(***************************************************************************)
EXTENDS Integers, Sequences, FiniteSets, TLC

VARIABLES
    \* ---- execution engine (execution/backtestEngine.py, stockBacktestEngine.py)
    engine,          \* which engine class was constructed
    commisionRate,   \* self.commisionRate
    marketImpact,    \* self.marketImpact
    executedOrders,  \* self.executedOrders : order id -> order
    eeNextId,        \* self.nextId of the engine
    engLog,          \* what the engine's caller observed, in order: <<event, order id>>
    delivered,       \* order id -> the status handed to onOrderFilled
    engResult,       \* outcome of the last engine call
    \* ---- publishers (datafeed/backtestEngine.py, stockBacktestEngine.py, stockDataPublisher.py)
    publisher,       \* which publisher class was constructed
    subscribers,     \* self.subscribers : subscriber id -> subscriber
    nextId,          \* self.nextId of the publisher
    topicsToSubscribers, \* self.topicsToSubscribers : topic -> set of subscribers
    subTopics,       \* subscriber -> what its getSubscribedTopics() returns now
    addedIds,        \* the ids addSubscriber returned, in call order
    invoked,         \* the subscribers whose onData/datafeed the last call invoked, in order
    pubResult,       \* outcome of the last publisher call
    regTopics,       \* subscriber id -> the topics its subscriber reported when registered
    \* ---- batch replay (BacktestDataPublisher.connect)
    rows,            \* the rows self.datafeed( topics, ... ) returns
    pc,              \* position of connect: "idle", "open", "notify" (batch replay),
                     \* "replay" (stock replay), "done", "failed" (it raised)
    dates,           \* sorted( groupedData.groups.keys() )
    dateIdx,         \* index of asOfDate in dates
    tsQueue,         \* timestamp groups of the current date not yet delivered
    subLog,          \* subscriber id -> what it received, in order
    notifyCount,     \* <<date, timestamp>> -> number of notifyAll calls for that group
    \* ---- stock replay (StockBacktestDataPublisher.connect, StockStrategy.datafeed)
    businessDates,   \* dataSource.getBusinessDates( ... )
    bdIdx,           \* index of asOfDate in businessDates
    feedOrder,       \* the order in which self.subscribers.values() yields the ids
    feedIdx,         \* index in feedOrder of the subscriber notifyAll feeds next
    freq,            \* strategy -> self.freq
    round,           \* strategy -> self.round
    position,        \* strategy -> self.position : [cash, book]
    tradingHistory,  \* strategy -> self.tradingHistory : date -> [Position, Asset]
    stratOrders,     \* strategy -> self.orders : order id -> order
    stratLog,        \* the steps of the replay, in order: <<step, strategy, date, n>>
    pandas,          \* the pandas release the program runs on
    bookCalls,       \* the calls made on a book, each with the book before and after
    heap,            \* the PortfolioPosition objects; self.position and the entries
                     \* of self.tradingHistory refer to them by their place in heap
    \* ---- portfolio (strats/portfolio.py)
    strategies,      \* self.strategies, in the order they were added
    portfolioTopicsToSubscribers, \* self.topicsToSubscribers of the portfolio
    portfolioOrders, \* self.orders of the portfolio : order id -> strategy
    isBacktest,      \* self.isBacktest
    mtms,            \* unit -> self.mtms : the entries [label, value] in order
    pfResult,        \* outcome of the last call on the portfolio
    twin,            \* a second run of the program on the same calls: its engine's
                     \* orders and next id, its self.orders and its last onData
    live,            \* the portfolio on the live engine: the progress of onData and
                     \* the orders the engine holds
    \* ---- functions that keep no state
    answer,          \* the last call of such a function: its arguments and its result
    \* ---- trading calendar (util/calendar.py)
    tradingDates     \* self.tradingDates

engVars == <<engine, commisionRate, marketImpact, executedOrders, eeNextId,
             engLog, delivered, engResult>>
pubVars == <<publisher, subscribers, nextId, topicsToSubscribers, subTopics,
             addedIds, invoked, pubResult, regTopics>>
repVars == <<rows, pc, dates, dateIdx, tsQueue, subLog, notifyCount>>
stkVars == <<businessDates, bdIdx, feedOrder, feedIdx, freq, round, position,
             tradingHistory, stratOrders, stratLog, pandas, bookCalls, heap>>
pfVars == <<strategies, portfolioTopicsToSubscribers, portfolioOrders, isBacktest,
            mtms, pfResult, twin, live>>
fnVars == <<answer, tradingDates>>
vars == <<engVars, pubVars, repVars, stkVars, pfVars, fnVars>>

(***************************************************************************)
(* Bounds of the model.                                                    *)
(***************************************************************************)
MaxOrders == 3

(***************************************************************************)
(* Orders and order statuses (execution/order.py).                         *)
(***************************************************************************)
BUY  == 1
SELL == -1

SUBMITTED == 0
CANCELLED == 1
EXECUTED  == 2

\* The instruments of the model; "ZZ" is an instrument the futures reference
\* data holds no record of.
SecIds == {"IF", "ZZ"}

Sides   == {BUY, SELL}
Volumes == {10}
Prices  == {1000}

SimpleOrder == [secId : SecIds, side : Sides, volume : Volumes, price : Prices]

\* SimpleOrderStatus( orderStatus, secId, executedPrice, commision,
\* orderDirection, orderSize )
SimpleOrderStatus(orderStatus, secId, executedPrice, commision, orderDirection, orderSize) ==
    [orderStatus |-> orderStatus, secId |-> secId, executedPrice |-> executedPrice,
     commision |-> commision, orderDirection |-> orderDirection, orderSize |-> orderSize]

\* An exception surfaced to the caller.
Raised(what) == [raised |-> what]
IsRaised(r)  == "raised" \in DOMAIN r

(***************************************************************************)
(* Reference data (execution/refData.py).                                  *)
(***************************************************************************)
\* FuturesRefData.futuresInfo: the records of the known contracts.
futuresInfo ==
    [s \in {"IF", "IC"} |-> [minChgPriceNum |-> 20, contMultNum |-> 3]]

\* FuturesRefData._getRecord
GetRecord(secId) ==
    IF secId \notin DOMAIN futuresInfo
        THEN Raised("NotFound")
        ELSE futuresInfo[secId]

\* FuturesRefData.getTickSize
GetTickSize(secId) ==
    LET record == GetRecord(secId)
    IN  IF IsRaised(record) THEN record ELSE [value |-> record.minChgPriceNum]

\* FuturesRefData.getLotSize
GetLotSize(secId) ==
    LET record == GetRecord(secId)
    IN  IF IsRaised(record) THEN record ELSE [value |-> record.contMultNum]

(***************************************************************************)
(* Execution engines.                                                      *)
(***************************************************************************)
Engines == {"BacktestExecutionEngine", "StockBacktestExecutionEngine"}

\* A direction that takes every order for a purchase.
DirectionOfBuy(orderObj) == 1

\* direction = 1 if orderObj.side == order.SimpleOrder.BUY else -1
Direction(orderObj) == IF orderObj.side = BUY THEN 1 ELSE -1

\* BacktestExecutionEngine.queryOrder
BacktestQueryOrder(orders, rate, impact, orderId) ==
    IF orderId \notin DOMAIN orders
        THEN Raised("NotFound")
        ELSE LET orderObj  == orders[orderId]
                 direction == Direction(orderObj)
                 tickSize  == GetTickSize(orderObj.secId)
                 contractFactor == GetLotSize(orderObj.secId)
             IN  IF IsRaised(tickSize) THEN tickSize
                 ELSE IF IsRaised(contractFactor) THEN contractFactor
                 ELSE LET effectivePrice == orderObj.price + direction * tickSize.value * impact
                      IN  SimpleOrderStatus(EXECUTED, orderObj.secId, effectivePrice,
                              effectivePrice * orderObj.volume * contractFactor.value * rate,
                              direction, orderObj.volume)

\* StockBacktestExecutionEngine.queryOrder
StockQueryOrder(orders, rate, impact, orderId) ==
    IF orderId \notin DOMAIN orders
        THEN Raised("NotFound")
        ELSE LET orderObj  == orders[orderId]
                 direction == Direction(orderObj)
                 effectivePrice == orderObj.price + direction * 1 * impact
             IN  SimpleOrderStatus(EXECUTED, orderObj.secId, effectivePrice,
                     effectivePrice * orderObj.volume * rate,
                     direction, orderObj.volume)

\* self.queryOrder of the constructed engine
queryOrder(orders, orderId) ==
    IF engine = "BacktestExecutionEngine"
        THEN BacktestQueryOrder(orders, commisionRate, marketImpact, orderId)
        ELSE StockQueryOrder(orders, commisionRate, marketImpact, orderId)

\* What one placeOrder call does to the engine and what its caller observes:
\* the id is taken and the order recorded, then the status is computed, then
\* the callback is invoked, then the id is returned.  cbRaises: the
\* caller-supplied callback raises.
PlaceOrderOutcome(orders, nid, order, cbRaises) ==
    LET orderId     == nid
        newOrders   == orders @@ (orderId :> order)
        orderStatus == queryOrder(newOrders, orderId)
    IN  [orders  |-> newOrders,
         nextId  |-> nid + 1,
         orderId |-> orderId,
         status  |-> orderStatus,
         filled  |-> ~IsRaised(orderStatus),
         events  |-> <<<<"call", orderId>>>> \o
                     (IF IsRaised(orderStatus) THEN <<<<"raise", orderId>>>>
                      ELSE IF cbRaises THEN <<<<"fill", orderId>>, <<"raise", orderId>>>>
                      ELSE <<<<"fill", orderId>>, <<"return", orderId>>>>),
         out     |-> IF IsRaised(orderStatus) THEN orderStatus
                     ELSE IF cbRaises THEN Raised("callback")
                     ELSE [value |-> orderId]]

\* placeOrder( order, onOrderFilled )
placeOrder(order, cbRaises) ==
    /\ eeNextId <= MaxOrders
    /\ LET r == PlaceOrderOutcome(executedOrders, eeNextId, order, cbRaises)
       IN  /\ executedOrders' = r.orders
           /\ eeNextId' = r.nextId
           /\ engLog' = engLog \o r.events
           /\ delivered' = IF r.filled THEN delivered @@ (r.orderId :> r.status)
                           ELSE delivered
           /\ engResult' = [op |-> "placeOrder", orderId |-> r.orderId, out |-> r.out]
    /\ UNCHANGED <<engine, commisionRate, marketImpact>>

\* A cancelOrder that cancels: it drops the order and reports CANCELLED.
cancelOrderCancels(orderId) ==
    /\ engResult' = [op |-> "cancelOrder", orderId |-> orderId,
                     out |-> [orderStatus |-> CANCELLED]]
    /\ executedOrders' = [k \in DOMAIN executedOrders \ {orderId} |-> executedOrders[k]]
    /\ UNCHANGED <<engine, commisionRate, marketImpact, eeNextId, engLog, delivered>>

\* cancelOrder( orderId )
cancelOrder(orderId) ==
    /\ engResult' = [op |-> "cancelOrder", orderId |-> orderId,
                     out |-> [orderStatus |-> EXECUTED]]
    /\ UNCHANGED <<engine, commisionRate, marketImpact, executedOrders, eeNextId,
                   engLog, delivered>>

\* queryOrder( orderId ), called from outside
queryOrderCall(orderId) ==
    /\ engResult' = [op |-> "queryOrder", orderId |-> orderId,
                     out |-> queryOrder(executedOrders, orderId)]
    /\ UNCHANGED <<engine, commisionRate, marketImpact, executedOrders, eeNextId,
                   engLog, delivered>>

\* BacktestExecutionEngine.updateOrder returns -1; the stock engine inherits
\* ExecutionEngine.updateOrder, whose body is empty (it returns None).
updateOrder(orderId, order) ==
    /\ engResult' = [op |-> "updateOrder", orderId |-> orderId,
                     out |-> IF engine = "BacktestExecutionEngine"
                             THEN [value |-> -1] ELSE [none |-> TRUE]]
    /\ UNCHANGED <<engine, commisionRate, marketImpact, executedOrders, eeNextId,
                   engLog, delivered>>

\* The ids the callers of the model try: every id that can be placed and one more.
OrderIds == 0 .. (MaxOrders + 1)

NoResult == [op |-> "none", orderId |-> 0, out |-> [none |-> TRUE]]

\* __init__ of both engines, given the commission rate and the market impact
EngConstructed ==
    /\ commisionRate = 3
    /\ marketImpact = 2
    /\ executedOrders = << >>
    /\ eeNextId = 1
    /\ engLog = << >>
    /\ delivered = << >>
    /\ engResult = NoResult

(***************************************************************************)
(* Publishers.                                                             *)
(***************************************************************************)
Publishers == {"BacktestDataPublisher", "StockBacktestDataPublisher", "StockDataPublisher"}

MaxSubs == 3

\* Topics are instrument identifiers.
Topics == {"A", "B"}

\* The subscriber objects of the model: a Portfolio, whose topics are those of
\* the strategies added to it so far, and a SimpleCTA on instrument "A".
\* None is Python's None.
None == "None"
Subscribers == {"portfolio", "cta"}

\* Two StockStrategy objects, one built with freq=1 and one with freq=2;
\* StockStrategy.getSubscribedTopics returns [].
Strategies == {"daily", "everyOther"}

Range(f) == {f[x] : x \in DOMAIN f}

\* The orders in which a dict or a set may be iterated.
Perms(S) == {p \in [1 .. Cardinality(S) -> S] : \A i, j \in DOMAIN p : p[i] = p[j] => i = j}

\* f without the key k
Pop(f, k) == [x \in DOMAIN f \ {k} |-> f[x]]

\* Portfolio.addStrategy: the topics of the strategy become topics of the portfolio.
addStrategy(strategyTopics) ==
    /\ subTopics' = [subTopics EXCEPT !["portfolio"] = @ \cup strategyTopics]
    /\ UNCHANGED <<publisher, subscribers, nextId, topicsToSubscribers, addedIds,
                   invoked, pubResult, regTopics>>

\* The topic index after StockDataPublisher.addSubscriber's loop over
\* subscriber.getSubscribedTopics().
IndexAdd(index, subscriber, subscribedTopics) ==
    [t \in DOMAIN index \cup subscribedTopics |->
        IF t \in subscribedTopics
            THEN (IF t \in DOMAIN index THEN index[t] ELSE {}) \cup {subscriber}
            ELSE index[t]]

\* An addSubscriber that takes the id from the number of registered
\* subscribers, so that an id freed by a removal is handed out again.
addSubscriberReusesId(subscriber) ==
    /\ nextId <= MaxSubs
    /\ invoked' = << >>
    /\ LET subId == Cardinality(DOMAIN subscribers) + 1
       IN  /\ nextId' = nextId + 1
           /\ subscribers' = [i \in DOMAIN subscribers \cup {subId} |->
                                 IF i = subId THEN subscriber ELSE subscribers[i]]
           /\ addedIds' = Append(addedIds, subId)
           /\ regTopics' = [i \in DOMAIN regTopics \cup {subId} |->
                              IF i = subId
                                  THEN (IF subscriber = None THEN {} ELSE subTopics[subscriber])
                                  ELSE regTopics[i]]
           /\ pubResult' = [op |-> "addSubscriber", id |-> subId, known |-> FALSE,
                            was |-> subscriber, data |-> {}, out |-> [value |-> subId]]
    /\ UNCHANGED <<publisher, subTopics, topicsToSubscribers>>

\* addSubscriber( subscriber ) of the three publishers.  Only
\* StockDataPublisher tests the subscriber against None and keeps an index.
addSubscriber(subscriber) ==
    /\ nextId <= MaxSubs
    /\ invoked' = << >>
    /\ IF publisher = "StockDataPublisher" /\ subscriber = None
        THEN /\ pubResult' = [op |-> "addSubscriber", id |-> 0, known |-> FALSE,
                              was |-> subscriber, data |-> {}, out |-> [none |-> TRUE]]
             /\ UNCHANGED <<subscribers, nextId, topicsToSubscribers, addedIds, regTopics>>
        ELSE LET subId == nextId
             IN  /\ nextId' = nextId + 1
                 /\ subscribers' = subscribers @@ (subId :> subscriber)
                 /\ topicsToSubscribers' =
                        IF publisher = "StockDataPublisher"
                            THEN IndexAdd(topicsToSubscribers, subscriber, subTopics[subscriber])
                            ELSE topicsToSubscribers
                 /\ addedIds' = Append(addedIds, subId)
                 /\ regTopics' = regTopics @@ (subId :>
                        IF subscriber = None THEN {} ELSE subTopics[subscriber])
                 /\ pubResult' = [op |-> "addSubscriber", id |-> subId, known |-> FALSE,
                                  was |-> subscriber, data |-> {}, out |-> [value |-> subId]]
    /\ UNCHANGED <<publisher, subTopics>>

\* The number of topics StockDataPublisher.removeSubscriber's loop handles
\* before topicsToSubscribers[ topic ] raises KeyError, visiting the topics in
\* the order ord.
RECURSIVE Handled(_, _, _)
Handled(index, ord, i) ==
    IF i > Len(ord) THEN Len(ord)
    ELSE IF ord[i] \notin DOMAIN index THEN i - 1
    ELSE Handled(index, ord, i + 1)

\* The topic index after that loop.
IndexRemove(index, subscriber, ord) ==
    LET n == Handled(index, ord, 1)
        done == {ord[i] : i \in 1 .. n}
    IN  [t \in DOMAIN index |-> IF t \in done THEN index[t] \ {subscriber} ELSE index[t]]

\* A removeSubscriber written as self.subscribers.pop( subscriberId, None )
\* without the membership test: an unknown id is passed over in silence.
removeSubscriberSilently(subscriberId) ==
    /\ invoked' = << >>
    /\ subscribers' = Pop(subscribers, subscriberId)
    /\ pubResult' = [op |-> "removeSubscriber", id |-> subscriberId,
                     known |-> subscriberId \in DOMAIN subscribers,
                     was |-> IF subscriberId \in DOMAIN subscribers
                             THEN subscribers[subscriberId] ELSE None,
                     data |-> {},
                     out |-> IF subscriberId \in DOMAIN subscribers
                             THEN [value |-> subscribers[subscriberId]]
                             ELSE [value |-> None]]
    /\ UNCHANGED <<publisher, nextId, topicsToSubscribers, subTopics, addedIds, regTopics>>

\* removeSubscriber( subscriberId ) of the three publishers.
\* BacktestDataPublisher and StockBacktestDataPublisher pop and return the
\* subscriber.  StockDataPublisher pops it, walks the topics the subscriber
\* reports now, in the order ord, and has no return statement.
removeSubscriber(subscriberId) ==
    /\ invoked' = << >>
    /\ IF subscriberId \notin DOMAIN subscribers
        THEN /\ pubResult' = [op |-> "removeSubscriber", id |-> subscriberId, known |-> FALSE,
                              was |-> None, data |-> {}, out |-> Raised("NotFound")]
             /\ UNCHANGED <<subscribers, topicsToSubscribers>>
        ELSE LET subscriber == subscribers[subscriberId]
             IN  /\ subscribers' = Pop(subscribers, subscriberId)
                 /\ IF publisher # "StockDataPublisher"
                     THEN /\ UNCHANGED topicsToSubscribers
                          /\ pubResult' = [op |-> "removeSubscriber", id |-> subscriberId,
                                           known |-> TRUE, was |-> subscriber, data |-> {},
                                           out |-> [value |-> subscriber]]
                     ELSE IF subscriber = None
                     THEN /\ UNCHANGED topicsToSubscribers
                          /\ pubResult' = [op |-> "removeSubscriber", id |-> subscriberId,
                                           known |-> TRUE, was |-> subscriber, data |-> {},
                                           out |-> [none |-> TRUE]]
                     ELSE \E ord \in Perms(subTopics[subscriber]) :
                          /\ topicsToSubscribers' =
                                 IndexRemove(topicsToSubscribers, subscriber, ord)
                          /\ pubResult' = [op |-> "removeSubscriber", id |-> subscriberId,
                                           known |-> TRUE, was |-> subscriber, data |-> {},
                                           out |-> IF Handled(topicsToSubscribers, ord, 1) < Len(ord)
                                                   THEN Raised("KeyError")
                                                   ELSE [none |-> TRUE]]
    /\ UNCHANGED <<publisher, nextId, subTopics, addedIds, regTopics>>

\* notify( subscriberId, data ) of the three publishers
notify(subscriberId, data) ==
    /\ IF subscriberId \in DOMAIN subscribers
        THEN IF subscribers[subscriberId] = None
              THEN /\ invoked' = << >>
                   /\ pubResult' = [op |-> "notify", id |-> subscriberId, known |-> TRUE,
                                    was |-> None, data |-> data,
                                    out |-> Raised("AttributeError")]
              ELSE /\ invoked' = <<subscribers[subscriberId]>>
                   /\ pubResult' = [op |-> "notify", id |-> subscriberId, known |-> TRUE,
                                    was |-> subscribers[subscriberId], data |-> data,
                                    out |-> [none |-> TRUE]]
        ELSE /\ invoked' = << >>
             /\ pubResult' = [op |-> "notify", id |-> subscriberId, known |-> FALSE,
                              was |-> None, data |-> data, out |-> Raised("NotFound")]
    /\ UNCHANGED <<publisher, subscribers, nextId, topicsToSubscribers, subTopics,
                   addedIds, regTopics>>

\* StockDataPublisher.notifyAll: the subscribers to invoke, the union of the
\* index entries of the instruments of the batch.
Matching(index, secIds) ==
    UNION {index[t] : t \in secIds \cap DOMAIN index}

\* SimpleCTA.onData reads data.ix[ self.instId ], which raises KeyError when
\* the batch holds no row of the instrument.  Portfolio.onData looks its
\* strategies up with dict.get and does not raise.
instId == "A"
OnDataRaises(subscriber, secIds) == subscriber = "cta" /\ instId \notin secIds

\* The calls of a loop that hands a batch with the instruments secIds to the
\* subscribers of walk in turn: it ends before a None, which has no onData,
\* and with a subscriber whose onData raises.
RECURSIVE Called(_, _, _)
Called(walk, secIds, i) ==
    IF i > Len(walk) \/ walk[i] = None THEN << >>
    ELSE IF OnDataRaises(walk[i], secIds) THEN <<walk[i]>>
    ELSE <<walk[i]>> \o Called(walk, secIds, i + 1)

\* How that loop ends.
LoopOutcome(walk, secIds) ==
    LET n == Len(Called(walk, secIds, 1))
    IN  IF n >= 1 /\ OnDataRaises(walk[n], secIds) THEN Raised("KeyError")
        ELSE IF n < Len(walk) THEN Raised("AttributeError")
        ELSE [none |-> TRUE]

\* notifyAll( data ).  BacktestDataPublisher and StockBacktestDataPublisher
\* walk self.subscribers; StockDataPublisher walks the matching set.  ord is
\* the order of the walk, over ids for the former and over subscribers for
\* the latter.
notifyAll(data) ==
    /\ IF publisher = "StockDataPublisher"
        THEN \E ord \in Perms(Matching(topicsToSubscribers, data)) :
             /\ invoked' = ord
             /\ pubResult' = [op |-> "notifyAll", id |-> 0, known |-> FALSE, was |-> None,
                              data |-> data, out |-> [none |-> TRUE]]
        ELSE \E ord \in Perms(DOMAIN subscribers) :
                LET walk == [i \in DOMAIN ord |-> subscribers[ord[i]]]
                IN  /\ invoked' = Called(walk, data, 1)
                    /\ pubResult' = [op |-> "notifyAll", id |-> 0, known |-> FALSE,
                                     was |-> None, data |-> data,
                                     out |-> LoopOutcome(walk, data)]
    /\ UNCHANGED <<publisher, subscribers, nextId, topicsToSubscribers, subTopics,
                   addedIds, regTopics>>

\* The subscriber ids callers try, and the batches (sets of instrument keys) fed.
SubIds  == 0 .. (MaxSubs + 1)
Batches == SUBSET Topics \ {{}}

\* __init__ of the three publishers; the portfolio holds no strategy yet
PubConstructed ==
    /\ subscribers = << >>
    /\ nextId = 1
    /\ topicsToSubscribers = << >>
    /\ subTopics = [s \in Subscribers \cup Strategies |-> IF s = "cta" THEN {instId} ELSE {}]
    /\ addedIds = << >>
    /\ invoked = << >>
    /\ regTopics = << >>
    /\ pubResult = [op |-> "none", id |-> 0, known |-> FALSE, was |-> None, data |-> {},
                    out |-> [none |-> TRUE]]

(***************************************************************************)
(* Batch replay: BacktestDataPublisher.connect (datafeed/backtestEngine.py).*)
(* A row of the frame self.datafeed returns is [tradeDate, timestamp,      *)
(* secId].  Trading dates are %Y%m%d strings and the timestamps of one     *)
(* frame are values of one type; both are numbered here in their own       *)
(* order, which is the order sorted() and groupby use.                     *)
(***************************************************************************)
MaxRows == 3
TradeDates == {1, 2}
Timestamps == {1, 2}
Row == [tradeDate : TradeDates, timestamp : Timestamps, secId : Topics]
Frames == {f \in SUBSET Row : Cardinality(f) <= MaxRows}

\* A replay that walks the group keys from the last to the first.
sortedDescending(keys) ==
    CHOOSE p \in Perms(keys) : \A i, j \in DOMAIN p : i < j => p[i] > p[j]

\* sorted( keys ), which is also the order in which groupby( 'timestamp' )
\* yields its groups
sorted(keys) ==
    CHOOSE p \in Perms(keys) : \A i, j \in DOMAIN p : i < j => p[i] < p[j]

\* groupedData.get_group( asOfDate )
get_group(data, asOfDate) == {r \in data : r.tradeDate = asOfDate}

\* the group of ddf.groupby( 'timestamp' ) under the key ts
subdf(ddf, ts) == {r \in ddf : r.timestamp = ts}

\* s with x appended to the entries of the keys in ids
AppendTo(log, ids, x) ==
    [id \in DOMAIN log |-> IF id \in ids THEN Append(log[id], x) ELSE log[id]]

\* connect(): the loop over the subscribers' topics and fields, the call of
\* self.datafeed, which returns data, and the grouping by trade date.  A
\* registered None has no getSubscribedTopics, and connect ends there.
connect(data) ==
    /\ pc = "idle"
    /\ invoked' = << >>
    /\ IF None \in Range(subscribers)
        THEN /\ pc' = "failed"
             /\ pubResult' = [op |-> "connect", id |-> 0, known |-> FALSE, was |-> None,
                              data |-> {}, out |-> Raised("AttributeError")]
             /\ UNCHANGED <<rows, dates, dateIdx, tsQueue, subLog, notifyCount>>
        ELSE /\ rows' = data
             /\ dates' = sorted({r.tradeDate : r \in data})
             /\ dateIdx' = 1
             /\ tsQueue' = << >>
             /\ subLog' = [id \in DOMAIN subscribers |-> << >>]
             /\ notifyCount' = << >>
             /\ pc' = IF data = {} THEN "done" ELSE "open"
             /\ pubResult' = [op |-> "connect", id |-> 0, known |-> FALSE, was |-> None,
                              data |-> {}, out |-> [none |-> TRUE]]
    /\ UNCHANGED <<publisher, subscribers, nextId, topicsToSubscribers, subTopics,
                   addedIds, regTopics>>

\* self.openMarket( asOfDate ) of connect's loop, followed by the grouping of
\* the date's rows by timestamp.  Strategy.openMarket is empty and
\* Portfolio.openMarket walks its strategies.
openMarket ==
    /\ pc = "open"
    /\ LET asOfDate == dates[dateIdx]
       IN  /\ subLog' = AppendTo(subLog, DOMAIN subscribers, <<"open", asOfDate, 0, {}>>)
           /\ tsQueue' = sorted({r.timestamp : r \in get_group(rows, asOfDate)})
    /\ pc' = "notify"
    /\ UNCHANGED <<rows, dates, dateIdx, notifyCount>>
    /\ UNCHANGED pubVars

\* self.notifyAll( subdf ) of connect's inner loop, for the next timestamp
\* group, and the advance of both loops.  ord is the order in which
\* notifyAll's loop meets the subscriber ids.
replayNotifyAll ==
    /\ pc = "notify"
    /\ LET asOfDate == dates[dateIdx]
           ts       == Head(tsQueue)
           batch    == subdf(get_group(rows, asOfDate), ts)
           secIds   == {r.secId : r \in batch}
       IN  \E ord \in Perms(DOMAIN subscribers) :
           LET walk == [i \in DOMAIN ord |-> subscribers[ord[i]]]
               n    == Len(Called(walk, secIds, 1))
               out  == LoopOutcome(walk, secIds)
           IN  /\ invoked' = Called(walk, secIds, 1)
               /\ subLog' = AppendTo(subLog, {ord[i] : i \in 1 .. n},
                                     <<"data", asOfDate, ts, batch>>)
               /\ notifyCount' =
                      [g \in DOMAIN notifyCount \cup {<<asOfDate, ts>>} |->
                          IF g = <<asOfDate, ts>>
                              THEN (IF g \in DOMAIN notifyCount THEN notifyCount[g] ELSE 0) + 1
                              ELSE notifyCount[g]]
               /\ pubResult' = [op |-> "connect", id |-> 0, known |-> FALSE, was |-> None,
                                data |-> {}, out |-> out]
               /\ IF IsRaised(out)
                   THEN /\ pc' = "failed"
                        /\ UNCHANGED <<tsQueue, dateIdx>>
                   ELSE /\ tsQueue' = Tail(tsQueue)
                        /\ IF Tail(tsQueue) # << >>
                            THEN pc' = "notify" /\ UNCHANGED dateIdx
                            ELSE IF dateIdx < Len(dates)
                            THEN pc' = "open" /\ dateIdx' = dateIdx + 1
                            ELSE pc' = "done" /\ UNCHANGED dateIdx
    /\ UNCHANGED <<rows, dates>>
    /\ UNCHANGED <<publisher, subscribers, nextId, topicsToSubscribers, subTopics,
                   addedIds, regTopics>>

(***************************************************************************)
(* Floating-point numbers.  Cash, prices, commissions and dividends are    *)
(* Python floats: every operation on them rounds its exact result to the   *)
(* nearest number the format holds, ties to the even mantissa.  The format *)
(* of the model has a mantissa of Mantissa bits where the machine's has    *)
(* 53, so that the rounding shows on small numbers.  A float is the record *)
(* [m, e] that stands for m * 2^e, with m odd, or [0, 0] for zero.         *)
(* Volumes are whole numbers far below 2^53, which floats hold exactly;    *)
(* they are kept as integers.                                              *)
(***************************************************************************)
Mantissa == 4

RECURSIVE Pow2(_)
Pow2(k) == IF k = 0 THEN 1 ELSE 2 * Pow2(k - 1)

\* the number of bits of the natural number n
RECURSIVE BitLen(_)
BitLen(n) == IF n = 0 THEN 0 ELSE 1 + BitLen(n \div 2)

Abs(n) == IF n < 0 THEN -n ELSE n

\* m * 2^e with the trailing zero bits of m moved into the exponent
RECURSIVE Canon(_, _)
Canon(m, e) ==
    IF m = 0 THEN [m |-> 0, e |-> 0]
    ELSE IF m % 2 = 0 THEN Canon(m \div 2, e + 1)
    ELSE [m |-> m, e |-> e]

\* the natural number n cut to bits bits, rounded to nearest, ties to even;
\* the result counts units of 2^(BitLen(n) - bits)
RoundTo(n, bits) ==
    LET k    == BitLen(n) - bits
        q    == n \div Pow2(k)
        r    == n % Pow2(k)
        half == Pow2(k - 1)
    IN  IF r > half \/ (r = half /\ q % 2 = 1) THEN q + 1 ELSE q

\* the float nearest to n * 2^e
Fl(n, e) ==
    IF BitLen(Abs(n)) <= Mantissa THEN Canon(n, e)
    ELSE Canon((IF n < 0 THEN -1 ELSE 1) * RoundTo(Abs(n), Mantissa),
               e + BitLen(Abs(n)) - Mantissa)

\* float( n ) of the integer n
FromInt(n) == Fl(n, 0)

\* the position above the leading bit of a: |a| < 2^Top(a)
Top(a) == a.e + BitLen(Abs(a.m))

FNeg(a) == [m |-> -a.m, e |-> a.e]

\* a + b
FAdd(a, b) ==
    IF a.m = 0 THEN b
    ELSE IF b.m = 0 THEN a
    ELSE IF Top(a) - Top(b) >= Mantissa + 2 THEN a
    ELSE IF Top(b) - Top(a) >= Mantissa + 2 THEN b
    ELSE LET lo == IF a.e < b.e THEN a.e ELSE b.e
         IN  Fl(a.m * Pow2(a.e - lo) + b.m * Pow2(b.e - lo), lo)

\* a - b
FSub(a, b) == FAdd(a, FNeg(b))

\* a * b
FMul(a, b) == Fl(a.m * b.m, a.e + b.e)

\* a / b for b # 0: the quotient of the mantissas is taken to 2 * Mantissa + 2
\* more bits, and a last bit records whether anything was left over
FDiv(a, b) ==
    LET k   == 2 * Mantissa + 2
        num == Abs(a.m) * Pow2(k)
        q   == num \div Abs(b.m)
        sticky == IF num % Abs(b.m) = 0 THEN 0 ELSE 1
        sign == IF (a.m < 0) = (b.m < 0) THEN 1 ELSE -1
    IN  Fl(sign * (2 * q + sticky), a.e - b.e - k - 1)

\* a > b
FGreater(a, b) == FSub(a, b).m > 0

\* the float of the whole number n times the float a
Times(n, a) == FMul(FromInt(n), a)

\* int( a ): the whole part of a, towards zero
FInt(a) ==
    IF a.e >= 0 THEN a.m * Pow2(a.e)
    ELSE IF a.m >= 0 THEN a.m \div Pow2(-a.e)
    ELSE -((-a.m) \div Pow2(-a.e))

(***************************************************************************)
(* The position book (strats/book.py, util/stock.py).  A book is the       *)
(* record [cash, book], book being the frame: instrument -> [Price,        *)
(* Volume].  The frame holds one dtype, so position.ix[ secId ] is a view  *)
(* of the row and what is written to secPos is written to the frame.       *)
(***************************************************************************)
\* The cash a strategy starts with (totalAsset of StockStrategy.__init__), 1000.00
totalAsset == 100000

\* PortfolioPosition.__init__
PortfolioPosition(asset) == [cash |-> asset, book |-> << >>]

\* An addPosition that turns the purchase down when isCashEnough says the
\* cash does not cover it.
addPositionIfCashEnough(pos, secId, price, volume, commision) ==
    IF ~FGreater(pos.cash, FAdd(Times(volume, price), commision)) THEN pos
    ELSE [cash |-> FSub(pos.cash, FAdd(commision, Times(volume, price))),
          book |-> IF secId \in DOMAIN pos.book
                      THEN [pos.book EXCEPT ![secId] =
                               [Price  |-> FDiv(FAdd(Times(@.Volume, @.Price),
                                                     Times(volume, price)),
                                                FromInt(@.Volume + volume)),
                                Volume |-> @.Volume + volume]]
                      ELSE pos.book @@ (secId :> [Price |-> price, Volume |-> volume])]

\* PortfolioPosition.addPosition
addPosition(pos, secId, price, volume, commision) ==
    [cash |-> FSub(pos.cash, FAdd(commision, Times(volume, price))),
     book |-> IF secId \in DOMAIN pos.book
                 THEN [pos.book EXCEPT ![secId] =
                          [Price  |-> FDiv(FAdd(Times(@.Volume, @.Price),
                                                Times(volume, price)),
                                           FromInt(@.Volume + volume)),
                           Volume |-> @.Volume + volume]]
                 ELSE pos.book @@ (secId :> [Price |-> price, Volume |-> volume])]

\* A deletePosition that sells the volume asked for, held or not.
deletePositionUnclamped(pos, secId, price, volume, commision) ==
    IF secId \notin DOMAIN pos.book THEN pos
    ELSE [cash |-> FAdd(pos.cash, FSub(Times(volume, price), commision)),
          book |-> IF pos.book[secId].Volume - volume # 0
                      THEN [pos.book EXCEPT ![secId].Volume = @ - volume]
                      ELSE Pop(pos.book, secId)]

\* PortfolioPosition.deletePosition: the row is dropped and put back when
\* some volume is left; a sale of more than is held sells what is held.
deletePosition(pos, secId, price, volume, commision) ==
    IF secId \notin DOMAIN pos.book THEN pos
    ELSE LET secPos   == pos.book[secId]
             availVol == IF volume > secPos.Volume THEN secPos.Volume ELSE volume
         IN  [cash |-> FAdd(pos.cash, FSub(Times(availVol, price), commision)),
              book |-> IF secPos.Volume - availVol > 0
                          THEN [pos.book EXCEPT ![secId].Volume = @ - availVol]
                          ELSE Pop(pos.book, secId)]

\* An adjustPrice that pays and allots per share held, not per full 10.
stockAdjustPricePerShare(volume, cash, dividend10, right10, rightIssue10, rightIssuePrice) ==
    LET newCash == FAdd(cash, FDiv(Times(volume, dividend10), FromInt(10)))
        newPosition == volume + FInt(FDiv(Times(volume, right10), FromInt(10)))
        rightIssueVolume == FInt(Times(volume \div 10, rightIssue10))
    IN  IF FGreater(cash, Times(rightIssueVolume, rightIssuePrice))
            THEN [Volume |-> newPosition + rightIssueVolume,
                  cash   |-> FSub(newCash, Times(rightIssueVolume, rightIssuePrice))]
            ELSE [Volume |-> newPosition, cash |-> newCash]

\* An adjustPrice that takes the rights issue up when the cash just pays it.
stockAdjustPriceAtLeast(volume, cash, dividend10, right10, rightIssue10, rightIssuePrice) ==
    LET unit == volume \div 10
        newCash == FAdd(cash, Times(unit, dividend10))
        newPosition == volume + FInt(Times(unit, right10))
        rightIssueVolume == FInt(Times(unit, rightIssue10))
    IN  IF ~FGreater(Times(rightIssueVolume, rightIssuePrice), cash)
            THEN [Volume |-> newPosition + rightIssueVolume,
                  cash   |-> FSub(newCash, Times(rightIssueVolume, rightIssuePrice))]
            ELSE [Volume |-> newPosition, cash |-> newCash]

\* util.stock.adjustPrice: the volume and the cash after a dividend, a stock
\* right and a rights issue, each quoted per 10 shares.
stockAdjustPrice(volume, cash, dividend10, right10, rightIssue10, rightIssuePrice) ==
    LET unit == volume \div 10
        newCash == FAdd(cash, Times(unit, dividend10))
        newPosition == volume + FInt(Times(unit, right10))
        rightIssueVolume == FInt(Times(unit, rightIssue10))
    IN  IF FGreater(cash, Times(rightIssueVolume, rightIssuePrice))
            THEN [Volume |-> newPosition + rightIssueVolume,
                  cash   |-> FSub(newCash, Times(rightIssueVolume, rightIssuePrice))]
            ELSE [Volume |-> newPosition, cash |-> newCash]

\* An adjustPrice that opens a row for an instrument the book does not hold.
adjustPriceOpensRow(pos, secId, ca) ==
    LET held == IF secId \in DOMAIN pos.book THEN pos.book[secId].Volume ELSE 0
        r == stockAdjustPrice(held, pos.cash, ca.dividend10, ca.right10,
                              ca.rightIssue10, ca.rightIssuePrice)
    IN  [cash |-> r.cash,
         book |-> IF secId \in DOMAIN pos.book
                     THEN [pos.book EXCEPT ![secId].Volume = r.Volume]
                     ELSE pos.book @@ (secId :> [Price |-> FromInt(0), Volume |-> r.Volume])]

\* PortfolioPosition.adjustPrice; positions.ix[ secId ] raises KeyError for
\* an instrument that is not held, and the KeyError is caught.
adjustPrice(pos, secId, ca) ==
    IF secId \notin DOMAIN pos.book THEN pos
    ELSE LET r == stockAdjustPrice(pos.book[secId].Volume, pos.cash, ca.dividend10,
                                   ca.right10, ca.rightIssue10, ca.rightIssuePrice)
         IN  [cash |-> r.cash,
              book |-> [pos.book EXCEPT ![secId].Volume = r.Volume]]

\* The pandas releases that differ in the sum of a Series without a number
\* in it: up to 0.20 an empty Series sums to 0 and one of NaN only to NaN,
\* 0.21 gives NaN for both, and from 0.22 on both sum to 0.
Builds == {"0.20", "0.21", "0.22"}

\* Not a number
NaN == [m |-> 0, e |-> 1]

\* The float sum of the terms f[ord[1]], f[ord[2]], ... taken in this order
RECURSIVE SumSeq(_, _, _)
SumSeq(f, ord, i) ==
    IF i = 0 THEN FromInt(0) ELSE FAdd(SumSeq(f, ord, i - 1), f[ord[i]])

\* Series.sum() of the Series f over index, NaN where f has no value: NaN
\* is passed over, and ord is the order in which the numbers are added up.
sum(f, index, ord) ==
    IF index = {} THEN (IF pandas = "0.21" THEN NaN ELSE FromInt(0))
    ELSE IF index \cap DOMAIN f = {}
        THEN (IF pandas = "0.22" THEN FromInt(0) ELSE NaN)
    ELSE SumSeq(f, ord, Len(ord))

\* PortfolioPosition.getTotalAsset( refPrices, excludeSuspended ).  The
\* product of the volumes and the prices has a row for every held
\* instrument, NaN for one without a price; with excludeSuspended the rows
\* of the others are picked through a set, whose order is not fixed.
getTotalAsset(pos, refPrices, excludeSuspended, ord) ==
    IF "none" \in DOMAIN refPrices THEN pos.cash
    ELSE LET priced == DOMAIN pos.book \cap DOMAIN refPrices.value
             monetaryVolumes ==
                 [s \in priced |-> Times(pos.book[s].Volume, refPrices.value[s])]
             tradingStocks ==
                 IF "none" \in DOMAIN excludeSuspended THEN DOMAIN pos.book
                 ELSE DOMAIN pos.book \ excludeSuspended.value
             total == sum([s \in priced \cap tradingStocks |-> monetaryVolumes[s]],
                          tradingStocks, ord)
         IN  IF total = NaN THEN NaN ELSE FAdd(pos.cash, total)

\* The orders in which getTotalAsset may add the terms up
SumOrders(pos, refPrices, excludeSuspended) ==
    IF "none" \in DOMAIN refPrices THEN {<< >>}
    ELSE LET priced == DOMAIN pos.book \cap DOMAIN refPrices.value
         IN  IF "none" \in DOMAIN excludeSuspended THEN Perms(priced)
             ELSE Perms(priced \ excludeSuspended.value)

(***************************************************************************)
(* Stock replay: StockBacktestDataPublisher.connect and notifyAll          *)
(* (datafeed/stockBacktestEngine.py), StockStrategy (strats/stockStrategy.py).*)
(***************************************************************************)
\* The lists getBusinessDates returns, dates numbered in calendar order
MaxStrategies == 2
BusinessDateLists == {<< >>, <<1>>, <<1, 2>>}

\* The order lists onData returns (the method is abstract): none, a
\* purchase, a sale, a sale followed by a purchase of another stock, and two
\* purchases of one stock
Buy(secId)  == CHOOSE o \in SimpleOrder : o.secId = secId /\ o.side = BUY
Sell(secId) == CHOOSE o \in SimpleOrder : o.secId = secId /\ o.side = SELL
OrderLists ==
    {<< >>, <<Buy("IF")>>, <<Sell("IF")>>, <<Sell("IF"), Buy("ZZ")>>, <<Buy("IF"), Buy("IF")>>}

\* The corporate actions the data source holds: per date and stock the
\* dividend, the stock right and the rights issue per 10 shares (getDividend,
\* getRightIssue).  "IF" pays 0.50 per 10 shares on the second date.
NoAction == [dividend10 |-> FromInt(0), right10 |-> FromInt(0),
             rightIssue10 |-> FromInt(0), rightIssuePrice |-> FromInt(0)]
dividendInfo(asOfDate) ==
    [s \in SecIds |-> IF s = "IF" /\ asOfDate = 2
                         THEN [NoAction EXCEPT !.dividend10 = FromInt(50)] ELSE NoAction]

\* getStockDailyData( asOfDate ): the close of each stock
CloseInfos == {[s \in SecIds |-> FromInt(1000)]}

\* StockStrategy.openMarket: adjustPrice for every stock of the book
RECURSIVE AdjustAll(_, _, _)
AdjustAll(pos, stocks, actions) ==
    IF stocks = {} THEN pos
    ELSE LET stock == CHOOSE x \in stocks : TRUE
         IN  AdjustAll(adjustPrice(pos, stock, actions[stock]),
                       stocks \ {stock}, actions)
StockStrategyOpenMarket(pos, actions) ==
    AdjustAll(pos, DOMAIN pos.book, actions)

\* The floats of an order status: the executed price, and the commission,
\* which the engine's model counts in ten-thousandths of the price unit
statusPrice(orderStatus) == FromInt(orderStatus.executedPrice)
statusCommision(orderStatus) == FDiv(FromInt(orderStatus.commision), FromInt(10000))

\* StockStrategy.onOrderFilled
onOrderFilled(pos, orderStatus) ==
    IF orderStatus.orderDirection = 1
        THEN addPosition(pos, orderStatus.secId, statusPrice(orderStatus),
                         orderStatus.orderSize, statusCommision(orderStatus))
    ELSE IF orderStatus.orderDirection = -1
        THEN deletePosition(pos, orderStatus.secId, statusPrice(orderStatus),
                            orderStatus.orderSize, statusCommision(orderStatus))
    ELSE pos

\* StockStrategy.closeMarket: the values of the entry of self.tradingHistory.
\* getTotalAsset( closeInfo ) adds the terms up in the order of the frame.
closeMarket(pos, closeInfo) ==
    [Position |-> pos,
     Asset |-> getTotalAsset(pos, [value |-> closeInfo], [none |-> TRUE],
                             CHOOSE p \in Perms(DOMAIN pos.book \cap DOMAIN closeInfo) : TRUE)]

\* A closeMarket that keeps the book it has recorded as the live book.
sameObject(h, ref) == [heap |-> h, ref |-> ref]

\* copy.deepcopy( self.position ): a new object with the same content
deepcopy(h, ref) == [heap |-> Append(h, h[ref]), ref |-> Len(h) + 1]

\* The loop of StockStrategy.datafeed over the generated orders, from the
\* i-th on: placeOrder records the order and hands its status to
\* onOrderFilled, which changes the book; then self.orders keeps the order.
\* st carries the engine, the strategy's book and orders, and the log; r is
\* what placeOrder did.
RECURSIVE PlaceOrders(_, _, _, _, _)
RECURSIVE Placed(_, _, _, _, _, _)
Placed(st, r, strategy, asOfDate, orders, i) ==
    IF ~r.filled
        THEN [st EXCEPT !.executedOrders = r.orders,
                        !.nextId = r.nextId,
                        !.engLog = @ \o r.events,
                        !.log = @ \o <<<<"place", strategy, asOfDate, r.orderId>>>>,
                        !.failed = TRUE]
        ELSE PlaceOrders(
               [st EXCEPT
                   !.executedOrders = r.orders,
                   !.nextId    = r.nextId,
                   !.engLog    = @ \o r.events,
                   !.delivered = @ @@ (r.orderId :> r.status),
                   !.position  = onOrderFilled(@, r.status),
                   !.orders    = @ @@ (r.orderId :> orders[i]),
                   !.log       = @ \o <<<<"place", strategy, asOfDate, r.orderId>>,
                                        <<"fill", strategy, asOfDate, r.orderId>>,
                                        <<"book", strategy, asOfDate, r.orderId>>,
                                        <<"placed", strategy, asOfDate, r.orderId>>>>],
               strategy, asOfDate, orders, i + 1)
PlaceOrders(st, strategy, asOfDate, orders, i) ==
    IF i > Len(orders) \/ st.failed THEN st
    ELSE Placed(st, PlaceOrderOutcome(st.executedOrders, st.nextId, orders[i], FALSE),
                strategy, asOfDate, orders, i)

\* The state a datafeed starts its order loop from, the book being pos
Before(pos, strategy, log) ==
    [executedOrders |-> executedOrders, nextId |-> eeNextId, engLog |-> engLog,
     delivered |-> delivered, position |-> pos, orders |-> stratOrders[strategy],
     log |-> log, failed |-> FALSE]

\* closeMarket at the end of datafeed, unless the order loop raised
Closing(placed, strategy, asOfDate, closeInfo) ==
    IF placed.failed THEN placed
    ELSE [placed EXCEPT !.log = @ \o <<<<"close", strategy, asOfDate, round[strategy]>>>>]
             @@ [snapshot |-> closeMarket(placed.position, closeInfo)]

\* A datafeed that takes the market-close snapshot before it places the
\* orders.
StepsCloseFirst(strategy, asOfDate, orders, actions, closeInfo) ==
    PlaceOrders(
        Closing(Before(StockStrategyOpenMarket(heap[position[strategy]], actions),
                       strategy,
                       stratLog \o <<<<"open", strategy, asOfDate, round[strategy]>>>>),
                strategy, asOfDate, closeInfo),
        strategy, asOfDate, orders, 1)

\* A datafeed that generates orders on every round.
StepsOnEveryRound(strategy, asOfDate, orders, actions, closeInfo) ==
    Closing(
        PlaceOrders(
            Before(StockStrategyOpenMarket(heap[position[strategy]], actions),
                   strategy,
                   stratLog \o <<<<"open", strategy, asOfDate, round[strategy]>>,
                                 <<"generate", strategy, asOfDate, Len(orders)>>>>),
            strategy, asOfDate, orders, 1),
        strategy, asOfDate, closeInfo)

\* The steps of StockStrategy.datafeed( asOfDate ): openMarket; on a round
\* that is a multiple of freq, onData and the placement of its orders
\* (orders is empty on the other rounds); closeMarket.
Steps(strategy, asOfDate, orders, actions, closeInfo) ==
    Closing(
        PlaceOrders(
            Before(StockStrategyOpenMarket(heap[position[strategy]], actions),
                   strategy,
                   stratLog \o <<<<"open", strategy, asOfDate, round[strategy]>>>> \o
                       (IF round[strategy] % freq[strategy] = 0
                           THEN <<<<"generate", strategy, asOfDate, Len(orders)>>>>
                           ELSE << >>)),
            strategy, asOfDate, orders, 1),
        strategy, asOfDate, closeInfo)

\* StockBacktestDataPublisher.connect up to its loop: the business dates are
\* fetched.  notifyAll walks self.subscribers.values(), whose order is that
\* of the dict and stays the same from date to date.
stockConnect(dateList) ==
    /\ pc = "idle"
    /\ businessDates' = dateList
    /\ feedOrder' \in Perms(DOMAIN subscribers)
    /\ bdIdx' = 1
    /\ feedIdx' = 1
    /\ pc' = IF dateList = << >> \/ DOMAIN subscribers = {} THEN "done" ELSE "replay"
    /\ invoked' = << >>
    /\ pubResult' = [op |-> "connect", id |-> 0, known |-> FALSE, was |-> None,
                     data |-> {}, out |-> [none |-> TRUE]]
    /\ UNCHANGED <<publisher, subscribers, nextId, topicsToSubscribers, subTopics,
                   addedIds, regTopics>>
    /\ UNCHANGED <<freq, round, position, tradingHistory, stratOrders, stratLog,
                   pandas, bookCalls, heap>>

\* The advance of notifyAll's loop over the subscribers and of connect's loop
\* over the business dates.
Advance ==
    IF feedIdx < Len(feedOrder)
        THEN feedIdx' = feedIdx + 1 /\ UNCHANGED <<bdIdx, pc>>
    ELSE IF bdIdx < Len(businessDates)
        THEN feedIdx' = 1 /\ bdIdx' = bdIdx + 1 /\ UNCHANGED pc
    ELSE pc' = "done" /\ UNCHANGED <<feedIdx, bdIdx>>

\* s.datafeed( asOfDate ) for the next subscriber of notifyAll( asOfDate ):
\* StockStrategy.datafeed as a whole.  orders is what onData returns,
\* closeInfo the closes the data source holds for the date.
datafeed ==
    /\ pc = "replay"
    /\ LET asOfDate == businessDates[bdIdx]
           strategy == subscribers[feedOrder[feedIdx]]
       IN  IF strategy = None
            THEN /\ pc' = "failed"
                 /\ invoked' = << >>
                 /\ pubResult' = [op |-> "connect", id |-> 0, known |-> FALSE, was |-> None,
                                  data |-> {}, out |-> Raised("AttributeError")]
                 /\ UNCHANGED <<bdIdx, feedIdx, round, position, tradingHistory,
                                stratOrders, stratLog, heap>>
                 /\ UNCHANGED <<executedOrders, eeNextId, engLog, delivered, engResult>>
            ELSE \E orders \in OrderLists, closeInfo \in CloseInfos :
                 /\ round[strategy] % freq[strategy] = 0 \/ orders = << >>
                 /\ eeNextId + Len(orders) - 1 <= MaxOrders
                 /\ \E r \in {Steps(strategy, asOfDate, orders,
                                     dividendInfo(asOfDate), closeInfo)} :
                     /\ executedOrders' = r.executedOrders
                     /\ eeNextId' = r.nextId
                     /\ engLog' = r.engLog
                     /\ delivered' = r.delivered
                     /\ engResult' = IF r.nextId = eeNextId THEN engResult
                                     ELSE [op |-> "placeOrder", orderId |-> r.nextId - 1,
                                           out |-> IF r.failed THEN Raised("NotFound")
                                                   ELSE [value |-> r.nextId - 1]]
                     /\ stratOrders' = [stratOrders EXCEPT ![strategy] = r.orders]
                     /\ stratLog' = r.log
                     /\ invoked' = <<strategy>>
                     /\ IF r.failed
                         THEN /\ pc' = "failed"
                              /\ pubResult' = [pubResult EXCEPT !.out = Raised("NotFound")]
                              /\ heap' = [heap EXCEPT ![position[strategy]] = r.position]
                              /\ UNCHANGED <<bdIdx, feedIdx, round, tradingHistory, position>>
                         ELSE /\ \E c \in {deepcopy([heap EXCEPT ![position[strategy]] =
                                                           r.snapshot.Position],
                                                     position[strategy])} :
                                   /\ heap' = [c.heap EXCEPT ![c.ref] = r.position]
                                   /\ position' = [position EXCEPT ![strategy] = c.ref]
                              /\ tradingHistory' = [tradingHistory EXCEPT ![strategy] =
                                     (asOfDate :> [Position |-> position[strategy],
                                                   Asset |-> r.snapshot.Asset]) @@ @]
                              /\ round' = [round EXCEPT ![strategy] = @ + 1]
                              /\ Advance
                              /\ UNCHANGED pubResult
    /\ UNCHANGED <<publisher, subscribers, nextId, topicsToSubscribers, subTopics,
                   addedIds, regTopics>>
    /\ UNCHANGED <<engine, commisionRate, marketImpact>>
    /\ UNCHANGED <<businessDates, feedOrder, freq, pandas, bookCalls>>

(***************************************************************************)
(* The calls on one book, that of the strategy "daily" (strats/book.py).   *)
(* Each call is logged with its arguments and the book before and after;   *)
(* of the calls before the last two the log keeps the number only.         *)
(***************************************************************************)
\* The number of calls followed
MaxCalls == 3

\* The arguments of the calls: the cash a book starts with, prices,
\* volumes, commissions, the corporate actions (a dividend, a stock right of
\* 1.5 per 10 shares, a rights issue of 2 per 10 shares at 4, none, all of
\* them), the reference prices and the suspended instruments
BookCash == {FromInt(40), FromInt(104)}
BookPrices == {FromInt(3), FromInt(5)}
BookVolumes == {10, 25}
BookCommisions == {FromInt(1)}
BookActions ==
    {NoAction,
     [NoAction EXCEPT !.dividend10 = FromInt(2)],
     [NoAction EXCEPT !.right10 = Fl(3, -1)],
     [NoAction EXCEPT !.rightIssue10 = FromInt(2), !.rightIssuePrice = FromInt(4)],
     [dividend10 |-> FromInt(2), right10 |-> Fl(3, -1),
      rightIssue10 |-> FromInt(2), rightIssuePrice |-> FromInt(4)]}
RefPrices ==
    {[none |-> TRUE], [value |-> ("IF" :> FromInt(3))],
     [value |-> [s \in SecIds |-> FromInt(5)]]}
ExcludeSuspended == {[none |-> TRUE], [value |-> {"IF"}]}

self == position["daily"]

Logged(call) ==
    /\ Len(bookCalls) < MaxCalls
    /\ heap' = [heap EXCEPT ![self] = call.after]
    /\ bookCalls' = Append([i \in DOMAIN bookCalls |->
                                IF i < Len(bookCalls) THEN [op |-> "past"] ELSE bookCalls[i]],
                            call)
    /\ UNCHANGED <<businessDates, bdIdx, feedOrder, feedIdx, freq, round, position,
                   tradingHistory, stratOrders, stratLog, pandas>>

AddPosition(secId, price, volume, commision) ==
    Logged([op |-> "addPosition", secId |-> secId, price |-> price, volume |-> volume,
            commision |-> commision, before |-> heap[self],
            after |-> addPosition(heap[self], secId, price, volume, commision)])

DeletePosition(secId, price, volume, commision) ==
    Logged([op |-> "deletePosition", secId |-> secId, price |-> price, volume |-> volume,
            commision |-> commision, before |-> heap[self],
            after |-> deletePosition(heap[self], secId, price, volume, commision)])

AdjustPrice(secId, ca) ==
    Logged([op |-> "adjustPrice", secId |-> secId, ca |-> ca, before |-> heap[self],
            after |-> adjustPrice(heap[self], secId, ca)])

GetTotalAsset(refPrices, excludeSuspended) ==
    \E ord \in SumOrders(heap[self], refPrices, excludeSuspended) :
        Logged([op |-> "getTotalAsset", refPrices |-> refPrices,
                excludeSuspended |-> excludeSuspended, before |-> heap[self],
                after |-> heap[self],
                out |-> getTotalAsset(heap[self], refPrices, excludeSuspended, ord)])

(***************************************************************************)
(* StockStrategy.adjustPosition (strats/stockStrategy.py): the orders that *)
(* move the book to the given weights.                                     *)
(***************************************************************************)
\* execution.order.Order( secId, side, volume, price )
Order(secId, side, volume, price) ==
    [secId |-> secId, side |-> side, volume |-> volume, price |-> price]

\* util.stock.roundVolume( volume ), 100 shares per lot
lotSize == 100
roundVolumeToShare(volume) == FInt(volume)
roundVolume(volume) == FInt(FDiv(volume, FromInt(lotSize))) * lotSize

\* positionRate of adjustPosition, 0.98 unless given
positionRate == FDiv(FromInt(98), FromInt(100))

\* getUpLimitStocks, getDownLimitStocks: the stocks whose open, high, low
\* and close are one price, with a rise or with a fall
getUpLimitStocks(refPrices) == {s \in DOMAIN refPrices.limit : refPrices.limit[s] = "up"}
getDownLimitStocks(refPrices) == {s \in DOMAIN refPrices.limit : refPrices.limit[s] = "down"}

\* The orders as the three loops generated them.
asGenerated(orders) == orders

\* sorted( orders, key=lambda o: o.side ): by side, the orders of one side
\* in the order they had
IsSide(side, o) == o.side = side
Select(orders, side) ==
    LET idx == {i \in DOMAIN orders : IsSide(side, orders[i])}
        RECURSIVE Pick(_, _)
        Pick(i, acc) == IF i > Len(orders) THEN acc
                        ELSE Pick(i + 1, IF i \in idx THEN Append(acc, orders[i]) ELSE acc)
    IN  Pick(1, << >>)
sortedBySide(orders) == Select(orders, SELL) \o Select(orders, 0) \o Select(orders, BUY)

\* The weights adjustPosition works with: those below 0 dropped, the rest
\* divided by their sum when normalizeWeights is set.  0 / 0 is NaN.
Normalized(weights, normalizeWeights, ord) ==
    LET kept  == {s \in DOMAIN weights : weights[s].m >= 0}
        total == SumSeq(weights, ord, Len(ord))
    IN  [s \in kept |-> IF kept = {} \/ ~normalizeWeights THEN weights[s]
                        ELSE IF total.m = 0 THEN NaN
                        ELSE FDiv(weights[s], total)]

\* adjustPosition( asOfDate, weights, refPrices, ... ) on the book pos.
\* env holds what the data source and the calendar answer: prevCloseInfo,
\* suspendingStocks, stocksToDelist.  opt holds useWeightCapital,
\* normalizeWeights and enableSab.  ords holds the orders in which the sets
\* are walked and the sums added up.  The result is the list returned, or
\* the ValueError of int( NaN ) in roundVolume.
adjustPosition(pos, weights, refPrices, env, opt, ords) ==
    LET w == Normalized(weights, opt.normalizeWeights, ords.weights)
        asset == getTotalAsset(pos, [value |-> env.prevCloseInfo],
                               [value |-> env.suspendingStocks], ords.asset)
        totalAsset_ == IF asset = NaN THEN NaN ELSE FMul(positionRate, asset)
        monetaryVolume(stock) ==
            IF opt.useWeightCapital THEN w[stock]
            ELSE IF totalAsset_ = NaN \/ w[stock] = NaN THEN NaN
            ELSE FMul(totalAsset_, w[stock])
        vwap(stock) == refPrices.close[stock]
        target(stock) == roundVolume(FDiv(monetaryVolume(stock), vwap(stock)))
        held(stock) == pos.book[stock].Volume
        sells == [i \in DOMAIN ords.sell |->
                     Order(ords.sell[i], SELL, held(ords.sell[i]), vwap(ords.sell[i]))]
        buys  == [i \in DOMAIN ords.buy |->
                     Order(ords.buy[i], BUY, target(ords.buy[i]), vwap(ords.buy[i]))]
        diffVolume(stock) == target(stock) - held(stock)
        moved == SelectSeq(ords.update, LAMBDA stock : diffVolume(stock) # 0)
        updates == [i \in DOMAIN moved |->
                       IF diffVolume(moved[i]) > 0
                           THEN Order(moved[i], BUY, diffVolume(moved[i]), vwap(moved[i]))
                           ELSE Order(moved[i], SELL, -diffVolume(moved[i]), vwap(moved[i]))]
    IN  IF \E i \in DOMAIN ords.buy : monetaryVolume(ords.buy[i]) = NaN
            THEN Raised("ValueError")
        ELSE IF \E i \in DOMAIN ords.update : monetaryVolume(ords.update[i]) = NaN
            THEN Raised("ValueError")
        ELSE [value |-> sortedBySide(sells \o buys \o updates)]

\* The sets the three loops of adjustPosition walk
stocksToSellUnforced(pos, weights, refPrices, env, opt) ==
    DOMAIN pos.book \ ((IF opt.enableSab THEN {} ELSE {s \in DOMAIN weights : weights[s].m >= 0})
                       \cup env.suspendingStocks \cup getDownLimitStocks(refPrices))
stocksToSell(pos, weights, refPrices, env, opt) ==
    IF opt.enableSab
        THEN DOMAIN pos.book \ (env.suspendingStocks \cup getDownLimitStocks(refPrices))
        ELSE (DOMAIN pos.book \ ({s \in DOMAIN weights : weights[s].m >= 0}
                                 \cup env.suspendingStocks \cup getDownLimitStocks(refPrices)))
             \cup (DOMAIN pos.book \cap env.stocksToDelist)
stocksToBuyUnheld(pos, weights, refPrices, env, opt) ==
    ({s \in DOMAIN weights : weights[s].m >= 0}
        \ (env.suspendingStocks \cup env.stocksToDelist \cup getUpLimitStocks(refPrices)))
    \ DOMAIN pos.book
stocksToBuy(pos, weights, refPrices, env, opt) ==
    ({s \in DOMAIN weights : weights[s].m >= 0}
        \ (env.suspendingStocks \cup env.stocksToDelist \cup getUpLimitStocks(refPrices)))
    \ (IF opt.enableSab THEN {} ELSE DOMAIN pos.book)
stocksToUpdateDelisting(pos, weights, refPrices, env, opt) ==
    IF opt.enableSab THEN {}
    ELSE ({s \in DOMAIN weights : weights[s].m >= 0} \cap DOMAIN pos.book)
         \ (env.suspendingStocks \cup getDownLimitStocks(refPrices)
            \cup getUpLimitStocks(refPrices))
stocksToUpdateAtUpLimit(pos, weights, refPrices, env, opt) ==
    IF opt.enableSab THEN {}
    ELSE ({s \in DOMAIN weights : weights[s].m >= 0} \cap DOMAIN pos.book)
         \ (env.suspendingStocks \cup env.stocksToDelist \cup getDownLimitStocks(refPrices))
stocksToUpdate(pos, weights, refPrices, env, opt) ==
    IF opt.enableSab THEN {}
    ELSE ({s \in DOMAIN weights : weights[s].m >= 0} \cap DOMAIN pos.book)
         \ (env.suspendingStocks \cup env.stocksToDelist
            \cup getDownLimitStocks(refPrices) \cup getUpLimitStocks(refPrices))

\* The inputs of the calls followed: the weights (money amounts when
\* useWeightCapital is set), the day's prices and limits, what the data
\* source answers
Weights ==
    UNION {[held -> {FromInt(0), FromInt(1024)}] : held \in SUBSET SecIds}
DayPrices ==
    {[close |-> [s \in SecIds |-> FromInt(5)], limit |-> l] :
        l \in {[s \in SecIds |-> "none"],
               [s \in SecIds |-> IF s = "IF" THEN "down" ELSE "up"],
               [s \in SecIds |-> IF s = "IF" THEN "up" ELSE "none"]}}
Envs ==
    {[prevCloseInfo |-> [s \in SecIds |-> FromInt(5)],
      suspendingStocks |-> su, stocksToDelist |-> de] :
        su \in {{}, {"ZZ"}}, de \in {{}, {"IF"}}}
Options == [useWeightCapital : BOOLEAN, normalizeWeights : BOOLEAN, enableSab : BOOLEAN]
Lots == {100, 300}

\* Every way the day can stand for the classification of the stocks: any
\* stock at its up limit, at its down limit or at neither, any set
\* suspended, any set delisted by the next adjustment.
LimitDays ==
    {[close |-> [s \in SecIds |-> FromInt(5)], limit |-> l] :
        l \in [SecIds -> {"none", "up", "down"}]}
AnyEnvs ==
    {[prevCloseInfo |-> [s \in SecIds |-> FromInt(5)],
      suspendingStocks |-> su, stocksToDelist |-> de] :
        su \in SUBSET SecIds, de \in SUBSET SecIds}

AdjustPosition(weights, refPrices, env, opt) ==
    \E sell \in Perms(stocksToSell(heap[self], weights, refPrices, env, opt)),
       buy \in Perms(stocksToBuy(heap[self], weights, refPrices, env, opt)),
       update \in Perms(stocksToUpdate(heap[self], weights, refPrices, env, opt)),
       asset \in SumOrders(heap[self], [value |-> env.prevCloseInfo],
                           [value |-> env.suspendingStocks]),
       wsum \in Perms({s \in DOMAIN weights : weights[s].m >= 0}) :
        Logged([op |-> "adjustPosition", weights |-> weights, refPrices |-> refPrices,
                env |-> env, opt |-> opt, before |-> heap[self], after |-> heap[self],
                generated |-> [sell |-> sell, buy |-> buy, update |-> update],
                out |-> adjustPosition(heap[self], weights, refPrices, env, opt,
                                       [sell |-> sell, buy |-> buy, update |-> update,
                                        asset |-> asset, weights |-> wsum])])

(***************************************************************************)
(* The portfolio (strats/portfolio.py) and the strategies it holds         *)
(* (strats/base.py, strats/CTA/simpleCta.py, strats/echo/run.py).          *)
(***************************************************************************)
MaxMembers == 2
MaxPlaced == 2

\* The strategy objects handed to Portfolio.addStrategy: a SimpleCTA on "IF",
\* an EchoStrategy on "ZZ" and "trader", an object of a subclass of Strategy
\* that overrides the hooks of the base class (onData, isActive, mtm) and
\* defines onOrderFilled; it subscribes to both instruments.
Members == {"simpleCta", "echo", "trader"}

\* The holders of a mark-to-market series: the strategies and the portfolio.
Units == Members \cup {"portfolio"}

\* getSubscribedTopics() of the strategies
getSubscribedTopics(s) ==
    CASE s = "simpleCta" -> {"IF"}
      [] s = "echo"      -> {"ZZ"}
      [] OTHER           -> SecIds

\* Neither Strategy nor SimpleCTA defines onOrderFilled; EchoStrategy does.
HasOnOrderFilled(s) == s # "simpleCta"

\* SimpleCTA.__init__ does not call Strategy.__init__, which is where
\* self.mtms is created.
HasMtms(s) == s # "simpleCta"

\* What the hooks of the strategies return in one call.  isActive() is True
\* in Strategy, SimpleCTA and EchoStrategy.
Activities == {a \in [Members -> BOOLEAN] : a["simpleCta"] /\ a["echo"]}

\* onData: EchoStrategy returns [], SimpleCTA one order of its instrument or
\* none, by the price against its thresholds.
Returns ==
    {r \in [Members -> {<< >>, <<Buy("IF")>>, <<Sell("ZZ"), Buy("IF")>>}] :
        /\ r["echo"] = << >>
        /\ Len(r["simpleCta"]) <= 1
        /\ Len(r["trader"]) # 1}

\* No strategy returns an order.
Quiet == [s \in Members |-> << >>]

\* mtm( closeInfo ): 0.0 in Strategy and EchoStrategy
MtmValues == {v \in [Members -> {0, 1}] : v["simpleCta"] = 0 /\ v["echo"] = 0}

\* mtm( closeInfo ) of a trader that keeps the hook of the base class
Flat == [s \in Members |-> 0]

\* The batches handed to Portfolio.onData: the instruments of the index and
\* the timestamp of the rows.
Datafeeds == [index : SUBSET SecIds \ {{}}, timestamp : Timestamps]

\* self.mtms[ asOfDate ] = mtm on a pandas.Series: the value of a label the
\* series holds is replaced where it stands, a new label is appended.
SetItem(series, label, value) ==
    IF \E i \in DOMAIN series : series[i].label = label
        THEN [i \in DOMAIN series |->
                 IF series[i].label = label THEN [label |-> label, value |-> value]
                 ELSE series[i]]
        ELSE Append(series, [label |-> label, value |-> value])

\* Portfolio.closeMarket( timestamp, closeInfo ): Strategy.closeMarket of the
\* strategies of list in turn (self.mtms[ asOfDate ] = self.mtm( closeInfo )),
\* then the entry of the portfolio itself, the sum.
RECURSIVE PortfolioCloseMarketFrom(_, _, _, _, _, _)
PortfolioCloseMarketFrom(m, list, i, mtm, timestamp, value) ==
    IF i > Len(list)
        THEN [mtms |-> [m EXCEPT !["portfolio"] = SetItem(@, timestamp, mtm)],
              out  |-> [value |-> mtm]]
    ELSE IF ~HasMtms(list[i])
        THEN [mtms |-> m, out |-> Raised("AttributeError")]
    ELSE PortfolioCloseMarketFrom(
             [m EXCEPT ![list[i]] = SetItem(@, timestamp, value[list[i]])],
             list, i + 1, mtm + value[list[i]], timestamp, value)

\* Portfolio.getSubscribersOnTopics( topics )
getSubscribersOnTopics(index, topics) ==
    UNION {index[t] : t \in topics \cap DOMAIN index}

\* for o in orders: oid = self.executionEngine.placeOrder( o,
\* onOrderFilled=s.onOrderFilled ); self.orders[ oid ] = s
RECURSIVE PlaceAll(_, _, _, _)
PlaceAll(st, s, os, k) ==
    IF k > Len(os) \/ IsRaised(st.out) THEN st
    ELSE IF ~HasOnOrderFilled(s) THEN [st EXCEPT !.out = Raised("AttributeError")]
    ELSE PlaceAll(
        LET r == PlaceOrderOutcome(st.orders, st.nextId, os[k], FALSE)
        IN  [orders |-> r.orders,
             nextId |-> r.nextId,
             events |-> st.events \o r.events,
             fills  |-> IF r.filled THEN st.fills @@ (r.orderId :> r.status) ELSE st.fills,
             placed |-> IF IsRaised(r.out) THEN st.placed
                        ELSE Append(st.placed, [oid |-> r.orderId, by |-> s, order |-> os[k]]),
             got    |-> st.got,
             out    |-> IF IsRaised(r.out) THEN r.out ELSE st.out],
        s, os, k + 1)

\* for s in subscribers: if s.isActive(): orders = s.onData( datafeed ); ...
RECURSIVE Deliver(_, _, _, _, _)
Deliver(st, ord, i, active, ret) ==
    IF i > Len(ord) \/ IsRaised(st.out) THEN st
    ELSE IF ~active[ord[i]] THEN Deliver(st, ord, i + 1, active, ret)
    ELSE Deliver(PlaceAll([st EXCEPT !.got = Append(@, ord[i])], ord[i], ret[ord[i]], 1),
                 ord, i + 1, active, ret)

\* self.orders after the orders of placed were recorded
Recorded(known, placed) ==
    [oid \in DOMAIN known \cup {placed[i].oid : i \in DOMAIN placed} |->
        IF \E i \in DOMAIN placed : placed[i].oid = oid
            THEN (CHOOSE p \in Range(placed) : p.oid = oid).by
            ELSE known[oid]]

\* Portfolio.addStrategy( strategy )
PortfolioAddStrategy(strategy) ==
    /\ Len(strategies) < MaxMembers
    /\ portfolioTopicsToSubscribers' =
           [t \in DOMAIN portfolioTopicsToSubscribers \cup getSubscribedTopics(strategy) |->
               IF t \in getSubscribedTopics(strategy)
                   THEN (IF t \in DOMAIN portfolioTopicsToSubscribers
                             THEN portfolioTopicsToSubscribers[t] ELSE {}) \cup {strategy}
                   ELSE portfolioTopicsToSubscribers[t]]
    /\ strategies' = Append(strategies, strategy)
    /\ pfResult' = [op |-> "addStrategy", strategy |-> strategy]
    /\ UNCHANGED <<portfolioOrders, isBacktest, mtms>>

\* Portfolio.closeMarket( timestamp, closeInfo ), called from outside
PortfolioCloseMarket(timestamp, value) ==
    /\ \E c \in {PortfolioCloseMarketFrom(mtms, strategies, 1, 0, timestamp, value)} :
        /\ mtms' = c.mtms
        /\ pfResult' = [op |-> "closeMarket", timestamp |-> timestamp, value |-> value,
                        out |-> c.out]
    /\ UNCHANGED <<strategies, portfolioTopicsToSubscribers, portfolioOrders, isBacktest>>

\* Portfolio.onData( datafeed ) on the batch.  ord is the order in which the
\* set of the matching strategies is iterated.
PortfolioOnData(batch, active, ret, value) ==
    /\ \E ord \in Perms(getSubscribersOnTopics(portfolioTopicsToSubscribers, batch.index)) :
       \E st \in {Deliver([orders |-> executedOrders, nextId |-> eeNextId, events |-> << >>,
                           fills |-> << >>, placed |-> << >>, got |-> << >>,
                           out |-> [none |-> TRUE]], ord, 1, active, ret)} :
       \E c \in {IF isBacktest /\ ~IsRaised(st.out)
                     THEN PortfolioCloseMarketFrom(mtms, strategies, 1, 0,
                                                   batch.timestamp, value)
                     ELSE [mtms |-> mtms, out |-> st.out]} :
        /\ st.nextId <= MaxPlaced + 1
        /\ executedOrders' = st.orders
        /\ eeNextId' = st.nextId
        /\ engLog' = engLog \o st.events
        /\ delivered' = delivered @@ st.fills
        /\ portfolioOrders' = Recorded(portfolioOrders, st.placed)
        /\ mtms' = c.mtms
        /\ pfResult' = [op |-> "onData", batch |-> batch, active |-> active,
                        got |-> st.got, placed |-> st.placed,
                        returned |-> [s \in Range(st.got) |-> ret[s]],
                        out |-> IF IsRaised(c.out) THEN c.out ELSE [none |-> TRUE]]
    /\ UNCHANGED <<strategies, portfolioTopicsToSubscribers, isBacktest,
                   engine, commisionRate, marketImpact, engResult>>

\* Portfolio.onData( datafeed ) of the second run, on the same batch and with
\* strategies that answer alike; the set of the matching strategies is
\* iterated in an order of its own.
TwinOnData(batch, active, ret) ==
    \E ord \in Perms(getSubscribersOnTopics(portfolioTopicsToSubscribers, batch.index)) :
    \E st \in {Deliver([orders |-> twin.orders, nextId |-> twin.nextId, events |-> << >>,
                        fills |-> << >>, placed |-> << >>, got |-> << >>,
                        out |-> [none |-> TRUE]], ord, 1, active, ret)} :
        /\ st.nextId <= MaxPlaced + 1
        /\ twin' = [orders |-> st.orders, nextId |-> st.nextId,
                    portfolioOrders |-> Recorded(twin.portfolioOrders, st.placed),
                    got |-> st.got, placed |-> st.placed]

\* Portfolio.onTradeReturn( orderRefId, ... )
PortfolioOnTradeReturn(orderRefId) ==
    /\ pfResult' = [op |-> "onTradeReturn", orderRefId |-> orderRefId,
                    to |-> IF orderRefId \in DOMAIN portfolioOrders
                           THEN <<portfolioOrders[orderRefId]>> ELSE << >>]
    /\ UNCHANGED <<strategies, portfolioTopicsToSubscribers, portfolioOrders,
                   isBacktest, mtms>>

\* Portfolio.__init__ and Strategy.__init__ of the strategies
PfConstructed ==
    /\ strategies = << >>
    /\ portfolioTopicsToSubscribers = << >>
    /\ portfolioOrders = << >>
    /\ mtms = [u \in Units |-> << >>]
    /\ pfResult = [op |-> "none"]
    /\ twin = [orders |-> << >>, nextId |-> 1, portfolioOrders |-> << >>,
               got |-> << >>, placed |-> << >>]
    /\ live = [queue |-> << >>, pending |-> [oid |-> 0, by |-> None], nextRef |-> 1,
               awaiting |-> {}, placedBy |-> << >>]

\* The statuses handed to StockStrategy.onOrderFilled: fills of 10 or 25
\* shares at 3 or 5 with a commission of 1 (10000 ten-thousandths), in either
\* direction, and statuses whose direction is neither 1 nor -1.
Statuses ==
    {SimpleOrderStatus(EXECUTED, secId, price, 10000, direction, size) :
        secId \in SecIds, price \in {3, 5}, direction \in {1, -1, 0}, size \in BookVolumes}

\* onOrderFilled( orderStatus ) of the strategy "daily"
OnOrderFilled(orderStatus) ==
    Logged([op |-> "onOrderFilled", orderStatus |-> orderStatus,
            secId |-> orderStatus.secId, before |-> heap[self],
            after |-> onOrderFilled(heap[self], orderStatus)])

\* The status the stock engine's placeOrder delivers for an order of
\* adjustPosition: its stock, side and volume, the price it asked for (the
\* market impact is below the precision of the book's floats), a
\* commission of 1.
FilledAt(o) == SimpleOrderStatus(EXECUTED, o.secId, FInt(o.price), 10000, o.side, o.volume)

\* The loop of datafeed over the orders adjustPosition returned: the next
\* order of the list is placed, and the engine delivers its fill at once.
PlaceNextOrder ==
    \E k \in DOMAIN bookCalls :
        /\ bookCalls[k].op = "adjustPosition"
        /\ "value" \in DOMAIN bookCalls[k].out
        /\ Len(bookCalls) - k + 1 \in DOMAIN bookCalls[k].out.value
        /\ OnOrderFilled(FilledAt(bookCalls[k].out.value[Len(bookCalls) - k + 1]))

(***************************************************************************)
(* The portfolio on the live engine.  placeOrder hands the order to the    *)
(* engine and returns its id; the trade return of an order arrives on the  *)
(* engine's own thread, which calls Portfolio.onTradeReturn, at any time   *)
(* after the engine took the order.  live holds the progress of onData     *)
(* (queue: the orders still to place, each with the strategy that returned *)
(* it; pending: the order the engine took while placeOrder has not         *)
(* returned yet) and the engine's side (nextRef: its next order id;        *)
(* awaiting: the orders whose trade return is due; placedBy: who returned  *)
(* the order of each id).                                                  *)
(***************************************************************************)
NoOrder == [oid |-> 0, by |-> None]

\* The orders onData places, in order: those of the active strategies in the
\* order of the walk, up to the first strategy that lacks the callback to pass.
RECURSIVE ToPlace(_, _, _, _)
ToPlace(ord, i, active, ret) ==
    IF i > Len(ord) THEN << >>
    ELSE IF ~active[ord[i]] THEN ToPlace(ord, i + 1, active, ret)
    ELSE IF ret[ord[i]] # << >> /\ ~HasOnOrderFilled(ord[i]) THEN << >>
    ELSE [k \in DOMAIN ret[ord[i]] |-> [by |-> ord[i], order |-> ret[ord[i]][k]]]
         \o ToPlace(ord, i + 1, active, ret)

\* Portfolio.onData( datafeed ) is entered: the strategies are asked.
LiveOnData(batch, active, ret) ==
    /\ live.queue = << >> /\ live.pending = NoOrder
    /\ \E ord \in Perms(getSubscribersOnTopics(portfolioTopicsToSubscribers, batch.index)) :
        live' = [live EXCEPT !.queue = ToPlace(ord, 1, active, ret)]
    /\ pfResult' = [op |-> "onData", batch |-> batch, active |-> active]
    /\ UNCHANGED <<strategies, portfolioTopicsToSubscribers, portfolioOrders, isBacktest,
                   mtms, twin>>

\* self.executionEngine.placeOrder( o, onOrderFilled=s.onOrderFilled ) is
\* called: the engine takes the order under its next id.
LivePlaceOrder ==
    /\ live.queue # << >> /\ live.pending = NoOrder
    /\ live.nextRef <= MaxPlaced
    /\ live' = [live EXCEPT !.pending  = [oid |-> live.nextRef, by |-> live.queue[1].by],
                            !.queue    = Tail(@),
                            !.nextRef  = @ + 1,
                            !.awaiting = @ \cup {live.nextRef},
                            !.placedBy = @ @@ (live.nextRef :> live.queue[1].by)]
    /\ UNCHANGED <<strategies, portfolioTopicsToSubscribers, portfolioOrders, isBacktest,
                   mtms, pfResult, twin>>

\* placeOrder returns: self.orders[ oid ] = s
LiveRecordOrder ==
    /\ live.pending # NoOrder
    /\ portfolioOrders' = Recorded(portfolioOrders, <<live.pending>>)
    /\ live' = [live EXCEPT !.pending = NoOrder]
    /\ UNCHANGED <<strategies, portfolioTopicsToSubscribers, isBacktest, mtms, pfResult, twin>>

\* The engine's thread delivers a trade return: one that is due, or one of
\* an order that is not the portfolio's.
LiveTradeReturn(orderRefId) ==
    /\ orderRefId \in live.awaiting \/ orderRefId \notin DOMAIN live.placedBy
    /\ PortfolioOnTradeReturn(orderRefId)
    /\ live' = [live EXCEPT !.awaiting = @ \ {orderRefId}]
    /\ UNCHANGED twin

(***************************************************************************)
(* The fields to request: BacktestDataPublisher.connect,                   *)
(* StockDataPublisher.onRtnRspLogin and Portfolio.getSubcribedDataFields.  *)
(***************************************************************************)
MaxRequests == 3
Fields == {"PRICE", "VOLUME"}

\* What getSubscribedDataFields() returns: None, which asks for all fields,
\* or a list of fields.  The aggregate is None or a set of fields likewise.
AllFields == [all |-> TRUE, fields |-> {}]
Explicit(fs) == [all |-> FALSE, fields |-> fs]
Requests == {AllFields} \cup {Explicit(fs) : fs \in SUBSET Fields}

\* The requests of the registered subscribers, by subscriber id, or of the
\* strategies of a portfolio, by their place in self.strategies.
RequestLists == UNION {[1 .. n -> Requests] : n \in 0 .. MaxRequests}

\* An update that starts a new set when a list of fields follows None.
fieldsUpdateStartsAnew(fields, f) ==
    IF f.all THEN AllFields
    ELSE IF fields.all THEN f
    ELSE Explicit(fields.fields \cup f.fields)

\* if not ( f is None or fields is None ): fields.update( f )
\* else: fields = None
fieldsUpdate(fields, f) ==
    IF ~(f.all \/ fields.all) THEN Explicit(fields.fields \cup f.fields)
    ELSE AllFields

\* for _, s in self.subscribers.items(): ... of connect and onRtnRspLogin,
\* on the requests in the order of the walk
RECURSIVE subscribedFields(_, _, _)
subscribedFields(fields, walk, i) ==
    IF i > Len(walk) THEN fields
    ELSE subscribedFields(fieldsUpdate(fields, walk[i]), walk, i + 1)

\* Portfolio.getSubcribedDataFields: the loop over self.strategies ends at
\* the first strategy that returns None.
RECURSIVE getSubcribedDataFields(_, _, _)
getSubcribedDataFields(dataFields, walk, i) ==
    IF i > Len(walk) THEN dataFields
    ELSE IF walk[i].all THEN AllFields
    ELSE getSubcribedDataFields(Explicit(dataFields.fields \cup walk[i].fields), walk, i + 1)

\* The aggregation of connect and of onRtnRspLogin (after a login with status
\* code 0).  ord is the order in which self.subscribers.items() yields the ids.
SubscribeFields(op, requests) ==
    \E ord \in Perms(DOMAIN requests) :
    \E walk \in {[i \in DOMAIN ord |-> requests[ord[i]]]} :
        answer' = [op |-> op, requests |-> requests, walk |-> walk,
                   out |-> subscribedFields(Explicit({}), walk, 1)]

\* Portfolio.getSubcribedDataFields()
PortfolioSubscribeFields(requests) ==
    answer' = [op |-> "getSubcribedDataFields", requests |-> requests, walk |-> requests,
               out |-> getSubcribedDataFields(Explicit({}), requests, 1)]

(***************************************************************************)
(* The trading calendar (util/calendar.py).  Dates are numbered in         *)
(* calendar order, the order of their '%Y%m%d' strings.                    *)
(***************************************************************************)
MaxDay == 5
Days == 1 .. MaxDay

\* n trading dates to go back or forth
Counts == 1 .. 3

\* dataSource.getBusinessDates( startDate ): trading dates in ascending order
Calendars ==
    {c \in UNION {[1 .. k -> Days] : k \in 0 .. MaxDay} :
        \A i, j \in DOMAIN c : i < j => c[i] < c[j]}

\* series.iloc[ k ]: the k-th element counted from 0, from the end when k is
\* negative; IndexError outside the series
iloc(series, k) ==
    IF k >= 0 /\ k < Len(series) THEN [value |-> series[k + 1]]
    ELSE IF k < 0 /\ -k <= Len(series) THEN [value |-> series[Len(series) + k + 1]]
    ELSE Raised("IndexError")

\* AShareTradingCalendar.prevTradingDate( asOfDate, n )
prevTradingDate(asOfDate, n) ==
    LET Early(d) == d < asOfDate
        earlyDates == SelectSeq(tradingDates, Early)
    IN  IF Len(earlyDates) > 0 THEN iloc(earlyDates, -n)
        ELSE Raised("too early")

\* AShareTradingCalendar.nextTradingDate( sinceDate, n )
nextTradingDate(sinceDate, n) ==
    LET Later(d) == d >= sinceDate
        laterDates == SelectSeq(tradingDates, Later)
    IN  IF Len(laterDates) > 1 THEN iloc(laterDates, n)
        ELSE Raised("too early")

\* The calls of the two methods.
PrevTradingDate(asOfDate, n) ==
    /\ answer' = [op |-> "prevTradingDate", date |-> asOfDate, n |-> n,
                  out |-> prevTradingDate(asOfDate, n)]
    /\ UNCHANGED tradingDates

NextTradingDate(sinceDate, n) ==
    /\ answer' = [op |-> "nextTradingDate", date |-> sinceDate, n |-> n,
                  out |-> nextTradingDate(sinceDate, n)]
    /\ UNCHANGED tradingDates

(***************************************************************************)
(* Specifications.                                                         *)
(***************************************************************************)
\* no function was called yet
FnIdle == answer = [op |-> "none"] /\ tradingDates = << >>

RepIdle ==
    /\ rows = {}
    /\ pc = "idle"
    /\ dates = << >>
    /\ dateIdx = 0
    /\ tsQueue = << >>
    /\ subLog = << >>
    /\ notifyCount = << >>

\* __init__ of the stock strategies with asset as their cash; no replay yet
StkWith(asset) ==
    /\ businessDates = << >>
    /\ bdIdx = 0
    /\ feedOrder = << >>
    /\ feedIdx = 0
    /\ freq = [s \in Strategies |-> IF s = "daily" THEN 1 ELSE 2]
    /\ round = [s \in Strategies |-> 0]
    /\ heap = [i \in 1..Cardinality(Strategies) |-> PortfolioPosition(asset)]
    /\ position = [s \in Strategies |-> IF s = "daily" THEN 1 ELSE 2]
    /\ tradingHistory = [s \in Strategies |-> << >>]
    /\ stratOrders = [s \in Strategies |-> << >>]
    /\ stratLog = << >>
    /\ bookCalls = << >>

StkConstructed == StkWith(FromInt(totalAsset))

StkIdle == StkConstructed /\ pandas = "0.22"

PfIdle == PfConstructed /\ isBacktest = FALSE /\ FnIdle

EngIdle == engine = "StockBacktestExecutionEngine" /\ EngConstructed

PubIdle == publisher = "BacktestDataPublisher" /\ PubConstructed

\* The execution engines under every sequence of calls.
Init == engine \in Engines /\ EngConstructed /\ PubIdle /\ RepIdle /\ StkIdle /\ PfIdle
Next ==
    \/ \E order \in SimpleOrder, cbRaises \in BOOLEAN :
           placeOrder(order, cbRaises) /\ UNCHANGED <<fnVars, pfVars, pubVars, repVars, stkVars>>
    \/ \E orderId \in OrderIds :
           cancelOrder(orderId) /\ UNCHANGED <<fnVars, pfVars, pubVars, repVars, stkVars>>
    \/ \E orderId \in OrderIds :
           queryOrderCall(orderId) /\ UNCHANGED <<fnVars, pfVars, pubVars, repVars, stkVars>>
    \/ \E orderId \in OrderIds, order \in SimpleOrder :
           updateOrder(orderId, order) /\ UNCHANGED <<fnVars, pfVars, pubVars, repVars, stkVars>>
Spec == Init /\ [][Next]_vars

\* The publishers under every sequence of calls.
InitPublisher == publisher \in Publishers /\ PubConstructed /\ EngIdle /\ RepIdle /\ StkIdle /\ PfIdle
NextPublisher ==
    \/ \E t \in Topics :
           addStrategy({t}) /\ UNCHANGED <<fnVars, pfVars, engVars, repVars, stkVars>>
    \/ \E s \in Subscribers \cup {None} :
           addSubscriber(s) /\ UNCHANGED <<fnVars, pfVars, engVars, repVars, stkVars>>
    \/ \E id \in SubIds :
           removeSubscriber(id) /\ UNCHANGED <<fnVars, pfVars, engVars, repVars, stkVars>>
    \/ \E id \in SubIds, d \in Batches :
           notify(id, d) /\ UNCHANGED <<fnVars, pfVars, engVars, repVars, stkVars>>
    \/ \E d \in Batches :
           notifyAll(d) /\ UNCHANGED <<fnVars, pfVars, engVars, repVars, stkVars>>
SpecPublisher == InitPublisher /\ [][NextPublisher]_vars

\* The batch replay: subscribers come and go, then connect replays a frame.
InitReplay ==
    publisher = "BacktestDataPublisher" /\ PubConstructed /\ EngIdle /\ RepIdle /\ StkIdle /\ PfIdle
NextReplay ==
    \/ \E s \in Subscribers \cup {None} :
           pc = "idle" /\ addSubscriber(s) /\ UNCHANGED <<fnVars, pfVars, engVars, repVars, stkVars>>
    \/ \E id \in SubIds :
           pc = "idle" /\ removeSubscriber(id) /\ UNCHANGED <<fnVars, pfVars, engVars, repVars, stkVars>>
    \/ \E data \in Frames :
           connect(data) /\ UNCHANGED <<fnVars, pfVars, engVars, stkVars>>
    \/ openMarket /\ UNCHANGED <<fnVars, pfVars, engVars, stkVars>>
    \/ replayNotifyAll /\ UNCHANGED <<fnVars, pfVars, engVars, stkVars>>
SpecReplay == InitReplay /\ [][NextReplay]_vars

\* The stock replay: strategies are registered, then connect feeds them the
\* business dates.
InitStock ==
    /\ publisher = "StockBacktestDataPublisher" /\ PubConstructed
    /\ EngIdle /\ RepIdle /\ StkConstructed
    /\ pandas \in Builds
    /\ PfIdle
NextStock ==
    \/ \E s \in Strategies \cup {None} :
           /\ pc = "idle" /\ nextId <= MaxStrategies
           /\ addSubscriber(s) /\ UNCHANGED <<fnVars, pfVars, engVars, repVars, stkVars>>
    \/ \E id \in SubIds :
           pc = "idle" /\ removeSubscriber(id) /\ UNCHANGED <<fnVars, pfVars, engVars, repVars, stkVars>>
    \/ \E dateList \in BusinessDateLists :
           /\ stockConnect(dateList)
           /\ UNCHANGED <<fnVars, pfVars, engVars, rows, dates, dateIdx, tsQueue, subLog, notifyCount>>
    \/ datafeed /\ UNCHANGED <<fnVars, pfVars, rows, dates, dateIdx, tsQueue, subLog, notifyCount>>
SpecStock == InitStock /\ [][NextStock]_vars

\* One book under every sequence of calls.
InitBook ==
    /\ EngIdle /\ PubIdle /\ RepIdle
    /\ \E asset \in BookCash : StkWith(asset)
    /\ pandas \in Builds
    /\ PfIdle
NextBook ==
    \/ \E secId \in SecIds, price \in BookPrices, volume \in BookVolumes,
          commision \in BookCommisions :
           AddPosition(secId, price, volume, commision) /\ UNCHANGED <<fnVars, pfVars, engVars, pubVars, repVars>>
    \/ \E secId \in SecIds, price \in BookPrices, volume \in BookVolumes,
          commision \in BookCommisions :
           DeletePosition(secId, price, volume, commision) /\ UNCHANGED <<fnVars, pfVars, engVars, pubVars, repVars>>
    \/ \E secId \in SecIds, ca \in BookActions :
           AdjustPrice(secId, ca) /\ UNCHANGED <<fnVars, pfVars, engVars, pubVars, repVars>>
    \/ \E refPrices \in RefPrices, excludeSuspended \in ExcludeSuspended :
           GetTotalAsset(refPrices, excludeSuspended) /\ UNCHANGED <<fnVars, pfVars, engVars, pubVars, repVars>>
SpecBook == InitBook /\ [][NextBook]_vars

\* adjustPosition on the books that purchases lead to.
InitAdjust ==
    /\ EngIdle /\ PubIdle /\ RepIdle
    /\ StkWith(FromInt(104))
    /\ pandas \in Builds
    /\ PfIdle
NextAdjust ==
    \/ \E secId \in SecIds, volume \in Lots :
           /\ Len(bookCalls) < MaxCalls - 1
           /\ \A i \in DOMAIN bookCalls : bookCalls[i].op # "adjustPosition"
           /\ AddPosition(secId, FromInt(5), volume, FromInt(1))
           /\ UNCHANGED <<fnVars, pfVars, engVars, pubVars, repVars>>
    \/ \E weights \in Weights, refPrices \in DayPrices, env \in Envs, opt \in Options :
           /\ \A i \in DOMAIN bookCalls : bookCalls[i].op # "adjustPosition"
           /\ AdjustPosition(weights, refPrices, env, opt)
           /\ UNCHANGED <<fnVars, pfVars, engVars, pubVars, repVars>>
SpecAdjust == InitAdjust /\ [][NextAdjust]_vars

\* adjustPosition with its defaults for the weights, on the books that
\* purchases of one lot lead to, on every day of LimitDays and AnyEnvs.
InitBuckets ==
    /\ EngIdle /\ PubIdle /\ RepIdle
    /\ StkWith(FromInt(104))
    /\ pandas = "0.22"
    /\ PfIdle
NextBuckets ==
    \/ \E secId \in SecIds :
           /\ Len(bookCalls) < MaxCalls - 1
           /\ \A i \in DOMAIN bookCalls : bookCalls[i].op # "adjustPosition"
           /\ AddPosition(secId, FromInt(5), 100, FromInt(1))
           /\ UNCHANGED <<fnVars, pfVars, engVars, pubVars, repVars>>
    \/ \E weights \in Weights, refPrices \in LimitDays, env \in AnyEnvs, enableSab \in BOOLEAN :
           /\ \A i \in DOMAIN bookCalls : bookCalls[i].op # "adjustPosition"
           /\ AdjustPosition(weights, refPrices, env,
                             [useWeightCapital |-> FALSE, normalizeWeights |-> TRUE,
                              enableSab |-> enableSab])
           /\ UNCHANGED <<fnVars, pfVars, engVars, pubVars, repVars>>
SpecBuckets == InitBuckets /\ [][NextBuckets]_vars

\* A book that purchases and corporate actions have led to is adjusted to
\* new weights, and the orders of the adjustment are filled.
InitRebalance ==
    /\ EngIdle /\ PubIdle /\ RepIdle
    /\ StkWith(FromInt(104))
    /\ pandas = "0.22"
    /\ PfIdle
NextRebalance ==
    \/ \E secId \in SecIds, volume \in Lots :
           /\ Len(bookCalls) < MaxCalls - 1
           /\ \A i \in DOMAIN bookCalls : bookCalls[i].op # "adjustPosition"
           /\ AddPosition(secId, FromInt(5), volume, FromInt(1))
           /\ UNCHANGED <<fnVars, pfVars, engVars, pubVars, repVars>>
    \/ \E secId \in SecIds, ca \in BookActions :
           /\ Len(bookCalls) < MaxCalls - 1
           /\ \A i \in DOMAIN bookCalls : bookCalls[i].op # "adjustPosition"
           /\ AdjustPrice(secId, ca)
           /\ UNCHANGED <<fnVars, pfVars, engVars, pubVars, repVars>>
    \/ \E weights \in Weights, refPrices \in DayPrices, env \in Envs, opt \in Options :
           /\ \A i \in DOMAIN bookCalls : bookCalls[i].op # "adjustPosition"
           /\ AdjustPosition(weights, refPrices, env, opt)
           /\ UNCHANGED <<fnVars, pfVars, engVars, pubVars, repVars>>
    \/ PlaceNextOrder /\ UNCHANGED <<fnVars, pfVars, engVars, pubVars, repVars>>
SpecRebalance == InitRebalance /\ [][NextRebalance]_vars

\* adjustPosition with normalized weights on books whose cash buys whole
\* lots: 1024 or 1408 to start with, less what purchases have cost.
InitAllocate ==
    /\ EngIdle /\ PubIdle /\ RepIdle
    /\ \E asset \in {FromInt(1024), FromInt(1408)} : StkWith(asset)
    /\ pandas = "0.22"
    /\ PfIdle
NextAllocate ==
    \/ \E secId \in SecIds :
           /\ Len(bookCalls) < MaxCalls - 1
           /\ \A i \in DOMAIN bookCalls : bookCalls[i].op # "adjustPosition"
           /\ AddPosition(secId, FromInt(5), 100, FromInt(1))
           /\ UNCHANGED <<fnVars, pfVars, engVars, pubVars, repVars>>
    \/ \E weights \in Weights, refPrices \in DayPrices, env \in Envs, enableSab \in BOOLEAN :
           /\ \A i \in DOMAIN bookCalls : bookCalls[i].op # "adjustPosition"
           /\ AdjustPosition(weights, refPrices, env,
                             [useWeightCapital |-> FALSE, normalizeWeights |-> TRUE,
                              enableSab |-> enableSab])
           /\ UNCHANGED <<fnVars, pfVars, engVars, pubVars, repVars>>
SpecAllocate == InitAllocate /\ [][NextAllocate]_vars

\* A portfolio is built of strategies that keep the mark-to-market of the
\* base class; then data and trade returns arrive.
Building == pfResult.op \in {"none", "addStrategy"}
InitPortfolio ==
    /\ FnIdle
    /\ engine \in Engines /\ EngConstructed /\ PubIdle /\ RepIdle /\ StkIdle
    /\ PfConstructed /\ isBacktest \in BOOLEAN
NextPortfolio ==
    \/ \E strategy \in Members \ Range(strategies) :
           /\ Building /\ PortfolioAddStrategy(strategy)
           /\ UNCHANGED <<fnVars, engVars, pubVars, repVars, stkVars, twin, live>>
    \/ \E batch \in Datafeeds, active \in Activities, ret \in Returns :
           PortfolioOnData(batch, active, ret, Flat)
           /\ UNCHANGED <<fnVars, pubVars, repVars, stkVars, twin, live>>
    \/ \E orderRefId \in OrderIds :
           PortfolioOnTradeReturn(orderRefId)
           /\ UNCHANGED <<fnVars, engVars, pubVars, repVars, stkVars, twin, live>>
SpecPortfolio == InitPortfolio /\ [][NextPortfolio]_vars

\* The mark-to-market series of a backtest portfolio whose strategies place
\* no order.
InitMtm ==
    /\ FnIdle
    /\ EngIdle /\ PubIdle /\ RepIdle /\ StkIdle
    /\ PfConstructed /\ isBacktest = TRUE
NextMtm ==
    \/ \E strategy \in Members \ Range(strategies) :
           /\ Building /\ PortfolioAddStrategy(strategy)
           /\ UNCHANGED <<fnVars, engVars, pubVars, repVars, stkVars, twin, live>>
    \/ \E timestamp \in Timestamps, value \in MtmValues :
           PortfolioCloseMarket(timestamp, value)
           /\ UNCHANGED <<fnVars, engVars, pubVars, repVars, stkVars, twin, live>>
    \/ \E batch \in Datafeeds, active \in Activities, value \in MtmValues :
           PortfolioOnData(batch, active, Quiet, value)
           /\ UNCHANGED <<fnVars, pubVars, repVars, stkVars, twin, live>>
SpecMtm == InitMtm /\ [][NextMtm]_vars

\* Two runs of one program: the same portfolio is built, and the same batches
\* arrive in both.
InitTwoRuns ==
    /\ FnIdle
    /\ engine \in Engines /\ EngConstructed /\ PubIdle /\ RepIdle /\ StkIdle
    /\ PfConstructed /\ isBacktest \in BOOLEAN
NextTwoRuns ==
    \/ \E strategy \in Members \ Range(strategies) :
           /\ Building /\ PortfolioAddStrategy(strategy)
           /\ UNCHANGED <<fnVars, engVars, pubVars, repVars, stkVars, twin, live>>
    \/ \E batch \in Datafeeds, active \in Activities, ret \in Returns :
           /\ PortfolioOnData(batch, active, ret, Flat)
           /\ TwinOnData(batch, active, ret)
           /\ UNCHANGED <<fnVars, pubVars, repVars, stkVars, live>>
SpecTwoRuns == InitTwoRuns /\ [][NextTwoRuns]_vars

\* The field aggregation, once, on every list of requests.
InitFields == EngIdle /\ PubIdle /\ RepIdle /\ StkIdle /\ PfIdle
NextFields ==
    \/ \E op \in {"connect", "onRtnRspLogin"}, requests \in RequestLists :
           /\ answer.op = "none" /\ SubscribeFields(op, requests)
           /\ UNCHANGED <<engVars, pubVars, repVars, stkVars, pfVars, tradingDates>>
    \/ \E requests \in RequestLists :
           /\ answer.op = "none" /\ PortfolioSubscribeFields(requests)
           /\ UNCHANGED <<engVars, pubVars, repVars, stkVars, pfVars, tradingDates>>
SpecFields == InitFields /\ [][NextFields]_vars

\* A calendar under every sequence of calls.
InitCalendar ==
    /\ EngIdle /\ PubIdle /\ RepIdle /\ StkIdle
    /\ PfConstructed /\ isBacktest = FALSE
    /\ answer = [op |-> "none"]
    /\ tradingDates \in Calendars
NextCalendar ==
    \/ \E asOfDate \in Days, n \in Counts :
           PrevTradingDate(asOfDate, n)
           /\ UNCHANGED <<engVars, pubVars, repVars, stkVars, pfVars>>
    \/ \E sinceDate \in Days, n \in Counts :
           NextTradingDate(sinceDate, n)
           /\ UNCHANGED <<engVars, pubVars, repVars, stkVars, pfVars>>
SpecCalendar == InitCalendar /\ [][NextCalendar]_vars

\* A portfolio on the live engine: it is built, then batches arrive on the
\* data thread and trade returns on the engine's.
InitLive ==
    /\ FnIdle
    /\ EngIdle /\ PubIdle /\ RepIdle /\ StkIdle
    /\ PfConstructed /\ isBacktest = FALSE
NextLive ==
    \/ \E strategy \in Members \ Range(strategies) :
           /\ Building /\ PortfolioAddStrategy(strategy)
           /\ UNCHANGED <<fnVars, engVars, pubVars, repVars, stkVars, twin, live>>
    \/ \E batch \in Datafeeds, active \in Activities, ret \in Returns :
           LiveOnData(batch, active, ret)
           /\ UNCHANGED <<fnVars, engVars, pubVars, repVars, stkVars>>
    \/ LivePlaceOrder /\ UNCHANGED <<fnVars, engVars, pubVars, repVars, stkVars>>
    \/ LiveRecordOrder /\ UNCHANGED <<fnVars, engVars, pubVars, repVars, stkVars>>
    \/ \E orderRefId \in OrderIds :
           LiveTradeReturn(orderRefId)
           /\ UNCHANGED <<fnVars, engVars, pubVars, repVars, stkVars>>
SpecLive == InitLive /\ [][NextLive]_vars

\* The fills a stock strategy receives, in any order.
InitFill ==
    /\ EngIdle /\ PubIdle /\ RepIdle /\ PfIdle
    /\ \E asset \in BookCash : StkWith(asset)
    /\ pandas = "0.22"
NextFill ==
    \/ \E orderStatus \in Statuses :
           OnOrderFilled(orderStatus)
           /\ UNCHANGED <<fnVars, pfVars, engVars, pubVars, repVars>>
SpecFill == InitFill /\ [][NextFill]_vars

(***************************************************************************)
(* Claims about the execution engines (specification Spec).                *)
(***************************************************************************)
IsReturn(e) == e[1] = "return"

\* The ids placeOrder returned to its callers, in order.
ReturnedIds == LET r == SelectSeq(engLog, IsReturn) IN [i \in DOMAIN r |-> r[i][2]]

Count(log, e) == Cardinality({i \in DOMAIN log : log[i] = e})

\* C1: every placeOrder call invokes onOrderFilled exactly once, with a status
\* for the order of that call, the invocation is over before placeOrder
\* returns the id, and a fill is delivered at no other time (only inside the
\* placeOrder call of its order).
C1_FillOncePerCall ==
    /\ \A k \in 1 .. (eeNextId - 1) :
          /\ Count(engLog, <<"call", k>>) = 1
          /\ Count(engLog, <<"fill", k>>) = 1
    /\ \A i \in DOMAIN engLog :
          /\ engLog[i][1] = "return" => i > 1 /\ engLog[i - 1] = <<"fill", engLog[i][2]>>
          /\ engLog[i][1] = "fill" =>
                /\ i > 1 /\ engLog[i - 1] = <<"call", engLog[i][2]>>
                /\ engLog[i][2] \in DOMAIN delivered
    /\ \A k \in DOMAIN delivered :
          /\ delivered[k].secId = executedOrders[k].secId
          /\ delivered[k].orderSize = executedOrders[k].volume

\* C2: the ids placeOrder returns are 1, 2, 3, ... in this order; queryOrder
\* succeeds for every id ever returned and fails with NotFound for every id
\* never returned.
C2_IdsCountUpAndStayKnown ==
    /\ \A i \in DOMAIN ReturnedIds : ReturnedIds[i] = i
    /\ \A id \in OrderIds :
          IF id \in Range(ReturnedIds)
              THEN ~IsRaised(queryOrder(executedOrders, id))
              ELSE queryOrder(executedOrders, id) = Raised("NotFound")

\* What the engine reports about its orders is never SUBMITTED or CANCELLED.
OnlyExecutedReported ==
    /\ \A k \in DOMAIN delivered : delivered[k].orderStatus = EXECUTED
    /\ \A k \in Range(ReturnedIds) :
          /\ ~IsRaised(queryOrder(executedOrders, k))
          /\ queryOrder(executedOrders, k).orderStatus = EXECUTED
    /\ \A k \in DOMAIN executedOrders :
          \/ IsRaised(queryOrder(executedOrders, k))
          \/ queryOrder(executedOrders, k).orderStatus = EXECUTED
    /\ engResult.op \in {"queryOrder", "cancelOrder"} /\ ~IsRaised(engResult.out)
          => engResult.out.orderStatus = EXECUTED

\* C3: every placed order is EXECUTED when placeOrder returns and from then
\* on: the fill callback, queryOrder and cancelOrder report no other status
\* for it, and cancelOrder on a placed order returns an EXECUTED status and
\* changes neither the recorded orders nor the next order id.
C3_AlwaysExecuted ==
    /\ OnlyExecutedReported
    /\ [][/\ OnlyExecutedReported'
          /\ \A id \in DOMAIN executedOrders :
                cancelOrder(id) =>
                    /\ engResult'.out.orderStatus = EXECUTED
                    /\ UNCHANGED <<executedOrders, eeNextId>>]_vars

\* C3 witness: cancelOrder was called on an order whose id placeOrder returned.
C3_Witness ==
    /\ engResult.op = "cancelOrder"
    /\ engResult.orderId \in Range(ReturnedIds)

(***************************************************************************)
(* Claims about the publishers (specification SpecPublisher).              *)
(***************************************************************************)
\* C6: whatever the interleaving of addSubscriber and removeSubscriber calls,
\* the ids addSubscriber returns are strictly increasing, so no id is
\* returned twice, also after the subscriber that held it was removed.
C6_IdsStrictlyIncrease ==
    \A i, j \in DOMAIN addedIds : i < j => addedIds[i] < addedIds[j]

\* C6 witness: addSubscriber has just returned an id while an id returned
\* earlier is no longer registered (its subscriber was removed before).
C6_Witness ==
    /\ pubResult.op = "addSubscriber"
    /\ Len(addedIds) > 1
    /\ pubResult.id = addedIds[Len(addedIds)]
    /\ \E i \in 1 .. (Len(addedIds) - 1) : addedIds[i] \notin DOMAIN subscribers

\* C7: for an id that is not registered (never returned, or removed since),
\* notify and removeSubscriber fail with NotFound, invoke no subscriber and
\* leave the id map and the topic index as they were.
C7_UnknownIdRejected ==
    [][\A id \in SubIds \ DOMAIN subscribers :
          /\ removeSubscriber(id) =>
                /\ pubResult'.out = Raised("NotFound")
                /\ invoked' = << >>
                /\ UNCHANGED <<subscribers, topicsToSubscribers>>
          /\ \A d \in Batches :
                notify(id, d) =>
                    /\ pubResult'.out = Raised("NotFound")
                    /\ invoked' = << >>
                    /\ UNCHANGED <<subscribers, topicsToSubscribers>>]_vars

\* C7 witness: the topic-indexed publisher was asked to remove an id that it
\* had returned and that was removed before.
C7_Witness ==
    /\ publisher = "StockDataPublisher"
    /\ pubResult.op = "removeSubscriber"
    /\ ~pubResult.known
    /\ pubResult.id \in Range(addedIds)

\* C8: removeSubscriber on a registered id returns the subscriber registered
\* under it and removes exactly that id from the id map.
C8_RemoveReturnsSubscriber ==
    [][\A id \in DOMAIN subscribers :
          removeSubscriber(id) =>
              /\ pubResult'.out = [value |-> subscribers[id]]
              /\ subscribers' = Pop(subscribers, id)]_vars

\* C9: every subscriber in some entry of the topic index is in the id map,
\* and after removeSubscriber on a registered id, completed or not, the id is
\* gone from the id map and its subscriber, unless still registered under
\* another id, is in no entry of the topic index.
C9_IndexWithinIdMap ==
    /\ \A t \in DOMAIN topicsToSubscribers :
          topicsToSubscribers[t] \subseteq Range(subscribers)
    /\ (pubResult.op = "removeSubscriber" /\ pubResult.known) =>
          /\ pubResult.id \notin DOMAIN subscribers
          /\ pubResult.was \notin Range(subscribers) =>
                \A t \in DOMAIN topicsToSubscribers :
                    pubResult.was \notin topicsToSubscribers[t]

\* The subscribers registered now under an id whose topics, as reported at
\* registration, meet the instrument keys of the batch.
RegisteredOn(secIds) ==
    {subscribers[id] : id \in {i \in DOMAIN subscribers : regTopics[i] \cap secIds # {}}}

\* C10: notifyAll of the topic-indexed publisher invokes onData exactly once
\* on each registered subscriber whose topics meet the batch, and on no other.
C10_NotifyAllExactlyMatching ==
    (publisher = "StockDataPublisher" /\ pubResult.op = "notifyAll") =>
        /\ \A i, j \in DOMAIN invoked : invoked[i] = invoked[j] => i = j
        /\ Range(invoked) = RegisteredOn(pubResult.data)

(***************************************************************************)
(* Claims about the batch replay (specification SpecReplay).               *)
(***************************************************************************)
\* An entry of a subscriber's log is <<kind, date, timestamp, batch>>.
IsData(e) == e[1] = "data"
IsOpen(e) == e[1] = "open"
Earlier(e1, e2) == e1[2] < e2[2] \/ (e1[2] = e2[2] /\ e1[3] < e2[3])
Groups(data) == {<<r.tradeDate, r.timestamp>> : r \in data}

\* C4: during BacktestDataPublisher.connect every subscriber receives its
\* batches in ascending (tradeDate, timestamp) order, each batch holding all
\* rows of its group; notifyAll is called once per (date, timestamp) group,
\* for all groups when connect returns; and a subscriber's openMarket(d)
\* comes before its first batch of d and after its last batch of every
\* earlier date, for every replayed date when connect returns.
C4_ReplayInOrder ==
    /\ \A id \in DOMAIN subLog :
          LET log == subLog[id]
          IN  /\ \A i, j \in DOMAIN log :
                    (i < j /\ IsData(log[i]) /\ IsData(log[j])) => Earlier(log[i], log[j])
              /\ \A j \in DOMAIN log : IsData(log[j]) =>
                    /\ \E i \in 1 .. (j - 1) : IsOpen(log[i]) /\ log[i][2] = log[j][2]
                    /\ log[j][4] = {r \in rows : <<r.tradeDate, r.timestamp>> =
                                                   <<log[j][2], log[j][3]>>}
              /\ \A i, k \in DOMAIN log :
                    (IsOpen(log[i]) /\ IsData(log[k]) /\ k < i) => log[k][2] < log[i][2]
              /\ \A i, k \in DOMAIN log :
                    (IsOpen(log[i]) /\ IsOpen(log[k]) /\ k < i) => log[k][2] < log[i][2]
              /\ pc = "done" =>
                    /\ {log[i][2] : i \in {k \in DOMAIN log : IsOpen(log[k])}} =
                           {r.tradeDate : r \in rows}
                    /\ {<<log[i][2], log[i][3]>> : i \in {k \in DOMAIN log : IsData(log[k])}} =
                           Groups(rows)
    /\ \A g \in DOMAIN notifyCount : g \in Groups(rows) /\ notifyCount[g] = 1
    /\ pc = "done" => DOMAIN notifyCount = Groups(rows)
    /\ pc \in {"open", "notify", "done"} => DOMAIN subLog = DOMAIN subscribers

\* A replay of two dates, the first with two timestamp groups, to two subscribers
C4_Witness ==
    /\ pc = "done"
    /\ Cardinality(DOMAIN subLog) >= 2
    /\ Len(dates) = 2
    /\ \A id \in DOMAIN subLog : Len(subLog[id]) = 5

(***************************************************************************)
(* Claims about the stock replay (specification SpecStock).                *)
(***************************************************************************)
\* Two entries of the replay log belong to the same datafeed call's strategy
\* and date.
SameFeed(e, f) == e[2] = f[2] /\ e[3] = f[3]

\* What may follow the entry e of the replay log directly, f being the next.
Follows(e, f) ==
    CASE e[1] = "open"     -> /\ SameFeed(e, f)
                              /\ f[1] = (IF e[4] % freq[e[2]] = 0 THEN "generate" ELSE "close")
      [] e[1] = "generate" -> /\ SameFeed(e, f)
                              /\ f[1] = (IF e[4] > 0 THEN "place" ELSE "close")
      [] e[1] = "place"    -> SameFeed(e, f) /\ f[1] = "fill" /\ f[4] = e[4]
      [] e[1] = "fill"     -> SameFeed(e, f) /\ f[1] = "book" /\ f[4] = e[4]
      [] e[1] = "book"     -> SameFeed(e, f) /\ f[1] = "placed" /\ f[4] = e[4]
      [] e[1] = "placed"   -> /\ SameFeed(e, f)
                              /\ f[1] \in {"place", "close"}
                              /\ f[1] = "place" => f[4] = e[4] + 1
      [] e[1] = "close"    -> f[1] = "open" /\ f[3] >= e[3]
      [] OTHER             -> FALSE

\* C5: in the stock replay the steps of every strategy on every business
\* date come in the order market-open hook, order generation (on the rounds
\* that are multiples of the strategy's freq), then for every generated order
\* its placement, its fill and the change of the book, then the market-close
\* snapshot, which holds the book as the fills left it; and every step of a
\* date comes before every step of a later date.
C5_DatafeedStepsInOrder ==
    /\ \A i \in 1 .. (Len(stratLog) - 1) : Follows(stratLog[i], stratLog[i + 1])
    /\ stratLog # << >> =>
          /\ stratLog[1][1] = "open"
          /\ LET last == stratLog[Len(stratLog)]
             IN  /\ last[1] = "close"
                 /\ last[3] \in DOMAIN tradingHistory[last[2]]
                 /\ heap[tradingHistory[last[2]][last[3]].Position] = heap[position[last[2]]]
    /\ \A i \in DOMAIN stratLog :
          stratLog[i][1] = "generate" =>
             /\ i + 4 * stratLog[i][4] + 1 <= Len(stratLog)
             /\ stratLog[i + 4 * stratLog[i][4] + 1][1] = "close"
    /\ \A i, j \in DOMAIN stratLog : i < j => stratLog[i][3] <= stratLog[j][3]
    /\ \A i \in DOMAIN stratLog :
          stratLog[i][1] = "book" =>
             /\ stratLog[i][4] \in DOMAIN delivered
             /\ stratLog[i][4] \in DOMAIN stratOrders[stratLog[i][2]]

\* A replay of two dates to both strategies that has ended: one strategy
\* placed two orders on one date, the other skipped the generation on a date.
C5_Witness ==
    /\ pc = "done"
    /\ Len(businessDates) = 2
    /\ Range(subscribers) = Strategies
    /\ \E i \in DOMAIN stratLog : stratLog[i][1] = "generate" /\ stratLog[i][4] = 2
    /\ \E i \in DOMAIN stratLog :
          /\ stratLog[i][1] = "open" /\ stratLog[i][3] = 2
          /\ stratLog[i][4] % freq[stratLog[i][2]] # 0
    /\ \E s \in Strategies : heap[position[s]].book # << >>

(***************************************************************************)
(* Claims about the position book (specification SpecBook).                *)
(***************************************************************************)
\* The logged calls of an operation
CallsOf(op) == {bookCalls[i] : i \in {j \in DOMAIN bookCalls : bookCalls[j].op = op}}

\* The rows of the instruments other than secId are the same in both books
OthersUnchanged(c) ==
    \A s \in SecIds \ {c.secId} :
        /\ s \in DOMAIN c.after.book <=> s \in DOMAIN c.before.book
        /\ s \in DOMAIN c.before.book => c.after.book[s] = c.before.book[s]

\* C11: addPosition( secId, price, volume, commision ) sets a held
\* instrument's average price to ( oldAvg * oldVol + price * volume ) /
\* ( oldVol + volume ) and its volume to oldVol + volume, and enters an
\* instrument not held at ( price, volume ); the cash goes down by exactly
\* price * volume + commision whether it covers the purchase or not, and the
\* other rows stay as they are.
C11_AddPositionAveragesAndPays ==
    \A c \in CallsOf("addPosition") :
        /\ c.after.cash = FSub(c.before.cash, FAdd(Times(c.volume, c.price), c.commision))
        /\ c.secId \in DOMAIN c.after.book
        /\ IF c.secId \in DOMAIN c.before.book
              THEN LET old == c.before.book[c.secId]
                   IN  /\ c.after.book[c.secId].Price =
                              FDiv(FAdd(Times(old.Volume, old.Price), Times(c.volume, c.price)),
                                   FromInt(old.Volume + c.volume))
                       /\ c.after.book[c.secId].Volume = old.Volume + c.volume
              ELSE c.after.book[c.secId] = [Price |-> c.price, Volume |-> c.volume]
        /\ OthersUnchanged(c)

\* a purchase of a held instrument at another price that the cash does not cover
C11_Witness ==
    \E c \in CallsOf("addPosition") :
        /\ c.secId \in DOMAIN c.before.book
        /\ c.before.book[c.secId].Price # c.price
        /\ ~FGreater(c.before.cash, FAdd(Times(c.volume, c.price), c.commision))
        /\ c.after.book[c.secId].Price \notin {c.price, c.before.book[c.secId].Price}

\* C12: deletePosition( secId, price, volume, commision ) leaves the book as
\* it is when secId is not held; otherwise it sells clamped = min( volume,
\* held volume ): the volume goes down by clamped, the cash up by price *
\* clamped - commision, the row goes when no volume is left and keeps its
\* average price when some is.
C12_DeletePositionClampsAndPays ==
    \A c \in CallsOf("deletePosition") :
        IF c.secId \notin DOMAIN c.before.book THEN c.after = c.before
        ELSE LET old == c.before.book[c.secId]
                 clamped == IF c.volume < old.Volume THEN c.volume ELSE old.Volume
             IN  /\ c.after.cash =
                        FAdd(c.before.cash, FSub(Times(clamped, c.price), c.commision))
                 /\ IF old.Volume - clamped = 0
                       THEN c.secId \notin DOMAIN c.after.book
                       ELSE /\ c.secId \in DOMAIN c.after.book
                            /\ c.after.book[c.secId] =
                                   [Price |-> old.Price, Volume |-> old.Volume - clamped]
                 /\ OthersUnchanged(c)

\* a sale of part of a holding, then a sale of more than what is left
C12_Witness ==
    \E c, d \in CallsOf("deletePosition") :
        /\ c.secId \in DOMAIN c.after.book
        /\ c.after.book[c.secId].Volume < c.before.book[c.secId].Volume
        /\ d.secId \in DOMAIN d.before.book
        /\ d.volume > d.before.book[d.secId].Volume
        /\ d.secId \notin DOMAIN d.after.book

\* C13: whatever addPosition, deletePosition and adjustPrice calls with
\* non-negative arguments a book has seen, the volume of each instrument it
\* holds is at least 0.
C13_VolumeNeverNegative ==
    \A i \in DOMAIN heap : \A s \in DOMAIN heap[i].book : heap[i].book[s].Volume >= 0

\* a stock right has raised a holding and a sale of more than is held followed
C13_Witness ==
    /\ \E a \in CallsOf("adjustPrice") :
           /\ a.secId \in DOMAIN a.before.book
           /\ a.after.book[a.secId].Volume > a.before.book[a.secId].Volume
    /\ \E d \in CallsOf("deletePosition") :
           /\ d.secId \in DOMAIN d.before.book
           /\ d.volume > d.before.book[d.secId].Volume
           /\ d.after = heap[self]

\* C14: addPosition( id, p, v, c ) on an instrument the book does not hold,
\* followed by deletePosition( id, p, v, c ), leaves the cash at exactly the
\* original cash less 2c (taken off at once or c by c) and no row for id.
C14_RoundTripCostsTwoCommisions ==
    \A i \in DOMAIN bookCalls :
        LET a == bookCalls[i]
        IN  (/\ i < Len(bookCalls)
             /\ a.op = "addPosition"
             /\ a.secId \notin DOMAIN a.before.book
             /\ bookCalls[i + 1].op = "deletePosition"
             /\ \A k \in {"secId", "price", "volume", "commision"} :
                    bookCalls[i + 1][k] = a[k])
            => /\ bookCalls[i + 1].after.cash \in
                      {FSub(a.before.cash, Times(2, a.commision)),
                       FSub(FSub(a.before.cash, a.commision), a.commision)}
               /\ a.secId \notin DOMAIN bookCalls[i + 1].after.book

\* What adjustPrice is to do to the row and the cash of a call c on a held
\* instrument: unit full tens of shares, the cash and the volume after the
\* dividend and the stock right, the allotment of the rights issue, its cost
Held(c) == c.before.book[c.secId]
Unit(c) == Held(c).Volume \div 10
AfterDividend(c) ==
    [cash   |-> FAdd(c.before.cash, Times(Unit(c), c.ca.dividend10)),
     Volume |-> Held(c).Volume + FInt(Times(Unit(c), c.ca.right10))]
Allotment(c) == FInt(Times(Unit(c), c.ca.rightIssue10))
Cost(c) == Times(Allotment(c), c.ca.rightIssuePrice)
AdjustPriceCalls == {c \in CallsOf("adjustPrice") : c.secId \in DOMAIN c.before.book}

\* C15: adjustPrice on a held instrument of volume V takes unit =
\* floor( V / 10 ), adds dividend10 * unit to the cash and
\* floor( unit * right10 ) to the volume, the rights issue apart; with all
\* four parameters 0 the cash and the volume stay as they are.
C15_AdjustPricePaysPerTen ==
    \A c \in AdjustPriceCalls :
        /\ c.secId \in DOMAIN c.after.book
        /\ c.after.book[c.secId].Price = Held(c).Price
        /\ OthersUnchanged(c)
        /\ \/ /\ c.after.cash = AfterDividend(c).cash
              /\ c.after.book[c.secId].Volume = AfterDividend(c).Volume
           \/ /\ Allotment(c) > 0
              /\ c.after.cash = FSub(AfterDividend(c).cash, Cost(c))
              /\ c.after.book[c.secId].Volume = AfterDividend(c).Volume + Allotment(c)
        /\ c.ca = NoAction => c.after = c.before

\* a dividend and a stock right on 35 shares: 3 full tens, 4.5 cut to 4 shares
C15_Witness ==
    \E c \in AdjustPriceCalls :
        /\ Held(c).Volume = 35
        /\ c.ca.dividend10.m > 0
        /\ Times(Unit(c), c.ca.right10) = Fl(9, -1)
        /\ c.after.book[c.secId].Volume \in {39, 39 + Allotment(c)}
        /\ c.after.cash # c.before.cash

\* C16: the rights issue of adjustPrice is all or nothing: with allotment =
\* floor( rightIssue10 * unit ), the whole allotment is added and the cash
\* charged allotment * rightIssuePrice when the cash before the call is
\* greater than that cost; when it is not, and that is so when the cash
\* just equals the cost, no share is allotted and nothing is charged.
C16_RightsIssueAllOrNothing ==
    \A c \in AdjustPriceCalls :
        IF FGreater(c.before.cash, Cost(c))
            THEN /\ c.after.book[c.secId].Volume = AfterDividend(c).Volume + Allotment(c)
                 /\ c.after.cash = FSub(AfterDividend(c).cash, Cost(c))
            ELSE /\ c.after.book[c.secId].Volume = AfterDividend(c).Volume
                 /\ c.after.cash = AfterDividend(c).cash

\* a rights issue whose cost is just the cash of the book: not taken up
C16_Witness ==
    \E c \in AdjustPriceCalls :
        /\ Allotment(c) > 0
        /\ c.before.cash = Cost(c)
        /\ c.after.book[c.secId].Volume = AfterDividend(c).Volume

\* C17: adjustPrice for an instrument the book does not hold changes neither
\* the cash nor any row, and opens no row for it.
C17_AdjustPriceOfUnheldIsNoOp ==
    \A c \in CallsOf("adjustPrice") :
        c.secId \notin DOMAIN c.before.book => c.after = c.before

\* a dividend, a stock right and a rights issue for an instrument not held
\* by a book that holds another one
C17_Witness ==
    \E c \in CallsOf("adjustPrice") :
        /\ c.secId \notin DOMAIN c.before.book
        /\ c.before.book # << >>
        /\ c.ca.dividend10.m > 0 /\ c.ca.right10.m > 0 /\ c.ca.rightIssue10.m > 0
        /\ heap[self] = c.before

\* C18: getTotalAsset( refPrices, excludeSuspended ) returns the cash plus
\* the sum of volume * reference price over the held instruments that have
\* a reference price and are not in excludeSuspended, the cash alone when
\* no refPrices are given, and changes nothing in the book.
C18_TotalAssetIsCashPlusHoldings ==
    \A c \in CallsOf("getTotalAsset") :
        /\ c.after = c.before
        /\ IF "none" \in DOMAIN c.refPrices THEN c.out = c.before.cash
           ELSE LET counted == (DOMAIN c.before.book \cap DOMAIN c.refPrices.value) \
                                   (IF "none" \in DOMAIN c.excludeSuspended THEN {}
                                    ELSE c.excludeSuspended.value)
                    worth == [s \in counted |->
                                 Times(c.before.book[s].Volume, c.refPrices.value[s])]
                IN  \E ord \in Perms(counted) :
                        c.out = FAdd(c.before.cash, SumSeq(worth, ord, Len(ord)))

(***************************************************************************)
(* Claims about the snapshots of the stock replay (specification SpecStock).*)
(***************************************************************************)
\* The step is a datafeed of strategy s that reached the market close of d
ClosedIn(s, d) ==
    /\ Len(stratLog') > Len(stratLog)
    /\ stratLog'[Len(stratLog')][1] = "close"
    /\ stratLog'[Len(stratLog')][2] = s
    /\ stratLog'[Len(stratLog')][3] = d

\* C19: at the market close of a date d the strategy records under d a
\* snapshot that equals its book at that moment, and no later addPosition,
\* deletePosition or adjustPrice on the live book changes a snapshot that
\* is recorded.
C19_SnapshotsKeepTheBookOfTheirDate ==
    [][\A s \in Strategies :
          /\ \A d \in DOMAIN tradingHistory[s] :
                 /\ d \in DOMAIN tradingHistory'[s]
                 /\ ~ClosedIn(s, d) =>
                        /\ tradingHistory'[s][d] = tradingHistory[s][d]
                        /\ heap'[tradingHistory[s][d].Position] =
                               heap[tradingHistory[s][d].Position]
          /\ \A d \in {1, 2} :
                 ClosedIn(s, d) =>
                     /\ d \in DOMAIN tradingHistory'[s]
                     /\ heap'[tradingHistory'[s][d].Position] = heap'[position'[s]]
      ]_vars

\* the book of a strategy has moved on from the snapshot of the first date
C19_Witness ==
    \E s \in Strategies :
        /\ DOMAIN tradingHistory[s] = {1, 2}
        /\ heap[tradingHistory[s][1].Position] # heap[position[s]]
        /\ heap[tradingHistory[s][1].Position] # heap[tradingHistory[s][2].Position]

(***************************************************************************)
(* Claims about adjustPosition (specification SpecAdjust).                 *)
(***************************************************************************)
\* C20: in every list of orders adjustPosition returns, in the incremental
\* mode and in the sell-all-before-buy mode, no BUY order comes before a
\* SELL order.
C20_NoBuyBeforeSell ==
    \A c \in CallsOf("adjustPosition") :
        "value" \in DOMAIN c.out =>
            \A i, j \in DOMAIN c.out.value :
                (c.out.value[i].side = BUY /\ c.out.value[j].side = SELL) => j < i

\* an adjustment whose update loop raises one holding before it cuts another
C20_Witness ==
    \E c \in CallsOf("adjustPosition") :
        /\ "value" \in DOMAIN c.out
        /\ ~c.opt.enableSab
        /\ Len(c.out.value) = 2
        /\ Len(c.generated.update) = 2
        /\ c.out.value[1].side = SELL /\ c.out.value[2].side = BUY
        /\ c.out.value[2].secId = c.generated.update[1]

(***************************************************************************)
(* Claims about the fill status (specification Spec).                      *)
(***************************************************************************)
\* C21: the status delivered for an order of limit price P, volume V and
\* side S has executedPrice = P + direction * tickSize * marketImpact, with
\* direction 1 for BUY and -1 for SELL, and commision = executedPrice * V *
\* lotSize * commisionRate; the stock engine has tick size 0.01 and lot
\* size 1, so that at impact 2 a price of 10.00 fills at 10.02 or 9.98.
C21_FillPriceAndCommision ==
    \A id \in DOMAIN delivered :
        LET o == executedOrders[id]
            direction == IF o.side = BUY THEN 1 ELSE -1
            stock == engine = "StockBacktestExecutionEngine"
            tick == IF stock THEN 1 ELSE futuresInfo[o.secId].minChgPriceNum
            lot  == IF stock THEN 1 ELSE futuresInfo[o.secId].contMultNum
        IN  /\ delivered[id].executedPrice = o.price + direction * tick * marketImpact
            /\ delivered[id].commision =
                   delivered[id].executedPrice * o.volume * lot * commisionRate
            /\ delivered[id].orderDirection = direction
            /\ delivered[id].orderSize = o.volume
            /\ stock /\ o.price = 1000 =>
                   delivered[id].executedPrice = IF o.side = BUY THEN 1002 ELSE 998

\* the stock engine has filled a purchase at 10.02 and a sale at 9.98
C21_Witness ==
    /\ engine = "StockBacktestExecutionEngine"
    /\ \E i, j \in DOMAIN delivered :
           /\ executedOrders[i].side = BUY /\ delivered[i].executedPrice = 1002
           /\ executedOrders[j].side = SELL /\ delivered[j].executedPrice = 998

\* C22: an engine operation that takes an order id raises NotFound when the
\* id was never placed: cancelOrder and updateOrder on such an id return
\* neither a status nor an identifier.
C22_UnknownOrderIdRaises ==
    (/\ engResult.op \in {"cancelOrder", "updateOrder", "queryOrder"}
     /\ engResult.orderId \notin DOMAIN executedOrders)
        => engResult.out = Raised("NotFound")

\* C23: addSubscriber( None ) fails in each of the publishers: the caller
\* gets a failure, neither the id map nor the topic index gets an entry, and
\* no subscriber id is used up.
C23_NullSubscriberRejected ==
    [][addSubscriber(None) =>
          /\ IsRaised(pubResult'.out)
          /\ UNCHANGED <<subscribers, topicsToSubscribers, nextId>>]_vars

(***************************************************************************)
(* Claims about the portfolio (specifications SpecMtm and SpecPortfolio).  *)
(***************************************************************************)
\* C24: the mark-to-market series of every strategy and of the portfolio
\* holds one entry per date, in the order the dates were first closed, and no
\* closeMarket or onData call changes an entry the series already holds.
C24_SeriesEntriesNeverOverwritten ==
    [][\A u \in Units :
        /\ \A i \in DOMAIN mtms[u] : i \in DOMAIN mtms'[u] /\ mtms'[u][i] = mtms[u][i]
        /\ \A i, j \in DOMAIN mtms'[u] : mtms'[u][i].label = mtms'[u][j].label => i = j]_vars

\* C25: two runs that build the same portfolio and receive the same batches
\* hand every batch to the same strategies in the same order, and give the
\* orders they place the same ids.
C25_RunsDeliverAlike ==
    pfResult.op = "onData" =>
        /\ twin.got = pfResult.got
        /\ twin.placed = pfResult.placed
        /\ twin.portfolioOrders = portfolioOrders

NthLatest(S, n) == CHOOSE d \in S : Cardinality({x \in S : x >= d}) = n
NthEarliest(S, n) == CHOOSE d \in S : Cardinality({x \in S : x <= d}) = n

\* C27: prevTradingDate( d, n ) is the n-th trading date before d and
\* nextTradingDate( d, n ) the n-th trading date after d, whenever the
\* calendar holds that many, whether or not d is a trading date.
C27_NthTradingDateBeforeAndAfter ==
    /\ answer.op = "prevTradingDate" =>
        \E before \in {{d \in Range(tradingDates) : d < answer.date}} :
            Cardinality(before) >= answer.n =>
                answer.out = [value |-> NthLatest(before, answer.n)]
    /\ answer.op = "nextTradingDate" =>
        \E after \in {{d \in Range(tradingDates) : d > answer.date}} :
            Cardinality(after) >= answer.n =>
                answer.out = [value |-> NthEarliest(after, answer.n)]

\* The orders of the last onData that were placed for the strategy s, in order.
PlacedFor(s) ==
    LET By(p) == p.by = s
        mine  == SelectSeq(pfResult.placed, By)
    IN  [i \in DOMAIN mine |-> mine[i].order]

\* C28: onData hands the batch once to every active strategy subscribed to an
\* instrument of the batch and to no other; every order such a strategy
\* returns is placed with the engine and filled to that strategy, and nothing
\* is placed for a strategy that is not active.
C28_OnDataReachesTheActiveSubscribed ==
    pfResult.op = "onData" =>
        \E due \in {{s \in getSubscribersOnTopics(portfolioTopicsToSubscribers,
                                                 pfResult.batch.index) :
                        pfResult.active[s]}} :
            /\ Range(pfResult.got) = due
            /\ \A i, j \in DOMAIN pfResult.got : pfResult.got[i] = pfResult.got[j] => i = j
            /\ \A s \in due : s \in DOMAIN pfResult.returned
                              /\ PlacedFor(s) = pfResult.returned[s]
            /\ \A i \in DOMAIN pfResult.placed :
                /\ pfResult.placed[i].by \in due
                /\ pfResult.placed[i].oid \in DOMAIN delivered
                /\ portfolioOrders[pfResult.placed[i].oid] = pfResult.placed[i].by

(***************************************************************************)
(* Claims about the portfolio on the live engine (specification SpecLive). *)
(***************************************************************************)
\* C29: a trade return with the id of an order the portfolio placed goes to
\* the strategy whose onData returned that order, also when it arrives before
\* placeOrder has returned, and a trade return with any other id goes to no
\* strategy.
C29_TradeReturnReachesItsStrategy ==
    pfResult.op = "onTradeReturn" =>
        pfResult.to = IF pfResult.orderRefId \in DOMAIN live.placedBy
                          THEN <<live.placedBy[pfResult.orderRefId]>>
                          ELSE << >>

(***************************************************************************)
(* Claims about the fills of a stock strategy (specification SpecFill).    *)
(***************************************************************************)
\* C30: a fill changes the book once, by addPosition when its direction is 1,
\* by deletePosition when it is -1 and not at all otherwise, with the
\* executed price, the size and the commission of the status; a purchase of
\* v at p1 with commission c1 followed by the sale of the v at p2 with
\* commission c2 leaves no row and the cash C - p1*v - c1 + p2*v - c2.
C30_FillsUpdateTheBook ==
    \A i \in DOMAIN bookCalls :
        bookCalls[i].op = "onOrderFilled" =>
            \E c \in {bookCalls[i]} : \E s \in {c.orderStatus} :
                /\ s.orderDirection = 1 =>
                       c.after = addPosition(c.before, s.secId, statusPrice(s),
                                             s.orderSize, statusCommision(s))
                /\ s.orderDirection = -1 =>
                       c.after = deletePosition(c.before, s.secId, statusPrice(s),
                                                s.orderSize, statusCommision(s))
                /\ s.orderDirection \notin {1, -1} => c.after = c.before
                /\ (/\ i < Len(bookCalls)
                    /\ s.orderDirection = 1
                    /\ s.secId \notin DOMAIN c.before.book
                    /\ bookCalls[i + 1].orderStatus.orderDirection = -1
                    /\ bookCalls[i + 1].orderStatus.secId = s.secId
                    /\ bookCalls[i + 1].orderStatus.orderSize = s.orderSize)
                   => \E t \in {bookCalls[i + 1].orderStatus} :
                        /\ s.secId \notin DOMAIN bookCalls[i + 1].after.book
                        /\ bookCalls[i + 1].after.cash =
                               FSub(FAdd(FSub(FSub(c.before.cash,
                                                   Times(s.orderSize, statusPrice(s))),
                                              statusCommision(s)),
                                         Times(t.orderSize, statusPrice(t))),
                                    statusCommision(t))

(***************************************************************************)
(* Claims about the classification of the stocks by adjustPosition         *)
(* (specification SpecBuckets).                                            *)
(***************************************************************************)
InBook(c, s) == s \in DOMAIN c.before.book
Targeted(c, s) == s \in DOMAIN c.weights /\ c.weights[s].m >= 0
Suspended(c, s) == s \in c.env.suspendingStocks
Delisting(c, s) == s \in c.env.stocksToDelist
AtUpLimit(c, s) == c.refPrices.limit[s] = "up"
AtDownLimit(c, s) == c.refPrices.limit[s] = "down"
FullSell(c, s) == Order(s, SELL, c.before.book[s].Volume, c.refPrices.close[s])

\* C31 as stated: in the incremental mode the stocks that get a
\* full-position sell order are exactly those held and (not targeted, or
\* suspended, or at the down limit, or delisted by the next trading date).
C31_SellIsHeldAndAnyExclusion ==
    \A c \in CallsOf("adjustPosition") :
        ~c.opt.enableSab =>
            Range(c.generated.sell) =
                {s \in SecIds : InBook(c, s) /\ (\/ ~Targeted(c, s) \/ Suspended(c, s)
                                                 \/ AtDownLimit(c, s) \/ Delisting(c, s))}

\* C31, amended: in the incremental mode the stocks of the sell loop are
\* exactly those held and either delisted by the next adjustment or at once
\* not targeted, not suspended and not at the down limit; when the call
\* returns, each of them has a SELL order of its whole holding in the list.
C31_SellIsUntargetedTradableOrDelisting ==
    \A c \in CallsOf("adjustPosition") :
        ~c.opt.enableSab =>
            /\ Range(c.generated.sell) =
                   {s \in SecIds : InBook(c, s) /\ (\/ Delisting(c, s)
                                                    \/ /\ ~Targeted(c, s)
                                                       /\ ~Suspended(c, s)
                                                       /\ ~AtDownLimit(c, s))}
            /\ "value" \in DOMAIN c.out =>
                   \A s \in Range(c.generated.sell) : FullSell(c, s) \in Range(c.out.value)

\* a held stock that is suspended stays out of the sell loop while a held
\* stock about to be delisted is sold although it is targeted
C31_Witness ==
    \E c \in CallsOf("adjustPosition") :
        /\ ~c.opt.enableSab /\ "value" \in DOMAIN c.out
        /\ InBook(c, "ZZ") /\ Suspended(c, "ZZ") /\ ~Targeted(c, "ZZ") /\ ~Delisting(c, "ZZ")
        /\ InBook(c, "IF") /\ Targeted(c, "IF") /\ Delisting(c, "IF")
        /\ c.generated.sell = <<"IF">>

\* C32: in the incremental mode the buy loop walks exactly the targeted
\* stocks that are not held, not suspended, not at the up limit and not
\* about to be delisted, the update loop exactly the targeted and held
\* stocks that are not suspended, not about to be delisted and at neither
\* limit; no suspended stock and no stock at the up limit gets a BUY order.
C32_BuyAndUpdateBuckets ==
    \A c \in CallsOf("adjustPosition") :
        /\ ~c.opt.enableSab =>
               /\ Range(c.generated.buy) =
                      {s \in SecIds : /\ Targeted(c, s) /\ ~InBook(c, s) /\ ~Suspended(c, s)
                                      /\ ~AtUpLimit(c, s) /\ ~Delisting(c, s)}
               /\ Range(c.generated.update) =
                      {s \in SecIds : /\ Targeted(c, s) /\ InBook(c, s) /\ ~Suspended(c, s)
                                      /\ ~Delisting(c, s) /\ ~AtUpLimit(c, s)
                                      /\ ~AtDownLimit(c, s)}
        /\ "value" \in DOMAIN c.out =>
               \A i \in DOMAIN c.out.value :
                   c.out.value[i].side = BUY =>
                       /\ ~Suspended(c, c.out.value[i].secId)
                       /\ ~AtUpLimit(c, c.out.value[i].secId)

\* a call in the incremental mode that returns a BUY order for a stock of
\* its buy or update loop while another targeted stock, suspended or at its
\* up limit, gets no order at all
C32_Witness ==
    /\ \E c \in CallsOf("adjustPosition") :
           /\ ~c.opt.enableSab /\ "value" \in DOMAIN c.out
           /\ Len(c.generated.buy) + Len(c.generated.update) > 0
           /\ \E i \in DOMAIN c.out.value :
                  /\ c.out.value[i].side = BUY
                  /\ c.out.value[i].secId \in Range(c.generated.buy) \cup Range(c.generated.update)
           /\ \E s \in SecIds :
                  /\ Targeted(c, s) /\ (AtUpLimit(c, s) \/ Suspended(c, s))
                  /\ \A i \in DOMAIN c.out.value : c.out.value[i].secId # s

\* The stocks that have an order of the given side in the list returned
Sided(c, side) == {c.out.value[i].secId : i \in {j \in DOMAIN c.out.value : c.out.value[j].side = side}}

\* C33: in the sell-all-before-buy mode the list returned holds a SELL of
\* the whole holding for exactly the held stocks that are neither suspended
\* nor at the down limit, a BUY for exactly the targeted stocks that are not
\* suspended, not about to be delisted and not at the up limit, held or
\* not, and nothing else; a stock sold and bought again has its SELL before
\* its BUY.
C33_SellAllBeforeBuy ==
    \A c \in CallsOf("adjustPosition") :
        c.opt.enableSab =>
            /\ Range(c.generated.sell) =
                   {s \in SecIds : InBook(c, s) /\ ~Suspended(c, s) /\ ~AtDownLimit(c, s)}
            /\ Range(c.generated.buy) =
                   {s \in SecIds : /\ Targeted(c, s) /\ ~Suspended(c, s)
                                   /\ ~Delisting(c, s) /\ ~AtUpLimit(c, s)}
            /\ c.generated.update = << >>
            /\ "value" \in DOMAIN c.out =>
                   /\ Sided(c, SELL) = Range(c.generated.sell)
                   /\ Sided(c, BUY) = Range(c.generated.buy)
                   /\ Len(c.out.value) = Len(c.generated.sell) + Len(c.generated.buy)
                   /\ \A s \in Sided(c, SELL) : FullSell(c, s) \in Range(c.out.value)
                   /\ \A i, j \in DOMAIN c.out.value :
                          /\ c.out.value[i].secId = c.out.value[j].secId
                          /\ c.out.value[i].side = SELL /\ c.out.value[j].side = BUY
                          => i < j

\* a call in the sell-all-before-buy mode that sells a holding and buys the
\* same stock again
C33_Witness ==
    \E c \in CallsOf("adjustPosition") :
        /\ c.opt.enableSab /\ "value" \in DOMAIN c.out
        /\ Sided(c, SELL) \cap Sided(c, BUY) # {}

\* C38: in the incremental mode the sell, buy and update loops walk
\* pairwise disjoint sets of stocks, so that the list returned holds at
\* most one order per stock, whatever is held, targeted, suspended, about
\* to be delisted or at a limit.
C38_OneOrderPerStock ==
    \A c \in CallsOf("adjustPosition") :
        ~c.opt.enableSab =>
            /\ Range(c.generated.sell) \cap Range(c.generated.buy) = {}
            /\ Range(c.generated.sell) \cap Range(c.generated.update) = {}
            /\ Range(c.generated.buy) \cap Range(c.generated.update) = {}
            /\ "value" \in DOMAIN c.out =>
                   \A i, j \in DOMAIN c.out.value :
                       c.out.value[i].secId = c.out.value[j].secId => i = j

\* a call in the incremental mode on a book of two stocks, one targeted
\* and about to be delisted, which returns an order for each
C38_Witness ==
    \E c \in CallsOf("adjustPosition") :
        /\ ~c.opt.enableSab /\ "value" \in DOMAIN c.out
        /\ \A s \in SecIds : InBook(c, s) /\ Targeted(c, s)
        /\ Delisting(c, "IF") /\ ~Delisting(c, "ZZ")
        /\ Len(c.out.value) = 2

(***************************************************************************)
(* Claims about the volumes adjustPosition orders (specification           *)
(* SpecAdjust).                                                            *)
(***************************************************************************)
\* availableAsset * weight, or the weight itself when useWeightCapital is
\* set, for the weights summed in the order wsum and the asset in the order
\* asset
Allocation(c, s, wsum, asset) ==
    LET w == Normalized(c.weights, c.opt.normalizeWeights, wsum)
        total == getTotalAsset(c.before, [value |-> c.env.prevCloseInfo],
                               [value |-> c.env.suspendingStocks], asset)
    IN  IF c.opt.useWeightCapital THEN w[s]
        ELSE IF total = NaN \/ w[s] = NaN THEN NaN
        ELSE FMul(FMul(positionRate, total), w[s])
\* the whole lots of 100 shares in a volume
RoundToLot(v) == FInt(FDiv(v, FromInt(lotSize))) * lotSize
DesiredVolume(c, s, wsum, asset) ==
    RoundToLot(FDiv(Allocation(c, s, wsum, asset), c.refPrices.close[s]))
OrdersFor(c, s) == {c.out.value[i] : i \in {j \in DOMAIN c.out.value : c.out.value[j].secId = s}}

\* C34: the desired volume of a stock of the buy or update loop is
\* the whole lots in allocation / reference price, the allocation being
\* positionRate * total asset at the previous close without the suspended
\* holdings * weight, or the weight itself with useWeightCapital; the order
\* of a stock of the buy loop carries the desired volume, the order of a
\* stock of the update loop the distance between the desired and the held
\* volume, BUY above and SELL below the holding, and a stock of the update
\* loop at distance 0 gets no order.
C34_DesiredVolumes ==
    \A c \in CallsOf("adjustPosition") :
        "value" \in DOMAIN c.out =>
            \E wsum \in Perms({s \in SecIds : Targeted(c, s)}),
               asset \in SumOrders(c.before, [value |-> c.env.prevCloseInfo],
                                   [value |-> c.env.suspendingStocks]) :
                /\ \A s \in Range(c.generated.buy) :
                       Order(s, BUY, DesiredVolume(c, s, wsum, asset), c.refPrices.close[s])
                           \in OrdersFor(c, s)
                /\ \A s \in Range(c.generated.update) :
                       \E d \in {DesiredVolume(c, s, wsum, asset) - c.before.book[s].Volume} :
                           /\ d > 0 => OrdersFor(c, s) = {Order(s, BUY, d, c.refPrices.close[s])}
                           /\ d < 0 => OrdersFor(c, s) = {Order(s, SELL, -d, c.refPrices.close[s])}
                           /\ d = 0 => OrdersFor(c, s) = {}

\* a call that leaves one holding as it is, at distance 0 from its desired
\* volume, and moves another
C34_Witness ==
    \E c \in CallsOf("adjustPosition") :
        /\ "value" \in DOMAIN c.out
        /\ \E s \in Range(c.generated.update) : OrdersFor(c, s) = {}
        /\ \E s \in Range(c.generated.update) \cup Range(c.generated.buy) :
               \E o \in OrdersFor(c, s) : o.volume > 0

\* C35: every order of a list adjustPosition returns, whatever the
\* weights, the prices and the book, has a volume that is a positive
\* integer; no order of volume 0 or below is returned.
C35_VolumesArePositive ==
    \A c \in CallsOf("adjustPosition") :
        "value" \in DOMAIN c.out =>
            \A i \in DOMAIN c.out.value :
                c.out.value[i].volume \in Nat \ {0}

(***************************************************************************)
(* Claims about the book under the fills of an adjustment (specification   *)
(* SpecRebalance).                                                         *)
(***************************************************************************)
\* C36: whatever fills of orders of the strategy and corporate actions the
\* book has gone through, it holds no row of volume 0: a stock is in the
\* book exactly when its held volume is positive.
C36_NoEmptyRows ==
    \A s \in DOMAIN heap[self].book : heap[self].book[s].Volume > 0

(***************************************************************************)
(* Claims about a placeOrder that fails (specification Spec).              *)
(***************************************************************************)
\* C37: every order a backtest engine has recorded has had its fill
\* callback invoked exactly once, and a placeOrder that fails, because the
\* status cannot be computed or because the callback raises, leaves the
\* recorded orders and the next id as they were.
C37_FailedPlaceOrderLeavesNoTrace ==
    [][/\ \A k \in DOMAIN executedOrders' : Count(engLog', <<"fill", k>>) = 1
       /\ (engLog' # engLog /\ IsRaised(engResult'.out)) =>
              /\ executedOrders' = executedOrders
              /\ eeNextId' = eeNextId
      ]_vars

(***************************************************************************)
(* Claims about the money an adjustment allocates (specification           *)
(* SpecAllocate).                                                          *)
(***************************************************************************)
\* The float a in units of 2^-12, exactly (the amounts met have no finer bits)
Exact(a) == a.m * Pow2(a.e + 12)

\* The volume the call wants of a stock of its buy or update loop, read off
\* the list returned: the volume bought, or the holding moved by the order
DesiredOf(c, s) ==
    LET held == IF InBook(c, s) /\ ~c.opt.enableSab THEN c.before.book[s].Volume ELSE 0
        moves == {o.side * o.volume : o \in {x \in OrdersFor(c, s) : x.side = BUY \/ ~c.opt.enableSab}}
    IN  IF moves = {} THEN held ELSE held + (CHOOSE v \in moves : TRUE)

RECURSIVE SpentOn(_, _)
SpentOn(c, stocks) ==
    IF stocks = {} THEN 0
    ELSE LET s == CHOOSE x \in stocks : TRUE
         IN  DesiredOf(c, s) * Exact(c.refPrices.close[s]) + SpentOn(c, stocks \ {s})

\* C39: with normalized weights, positive reference prices and a total
\* asset at the previous close that is not negative, the desired volumes of
\* the stocks of the buy and update loops, each times its reference price,
\* add up to no more than positionRate * total asset.
C39_AllocationWithinAvailableAsset ==
    \A c \in CallsOf("adjustPosition") :
        (c.opt.normalizeWeights /\ "value" \in DOMAIN c.out) =>
            \E asset \in SumOrders(c.before, [value |-> c.env.prevCloseInfo],
                                   [value |-> c.env.suspendingStocks]) :
                \E total \in {getTotalAsset(c.before, [value |-> c.env.prevCloseInfo],
                                             [value |-> c.env.suspendingStocks], asset)} :
                    (total # NaN /\ total.m >= 0) =>
                        SpentOn(c, Range(c.generated.buy) \cup Range(c.generated.update))
                            <= Exact(FMul(positionRate, total))

(***************************************************************************)
(* Claims about the rounds of a stock strategy (specification SpecStock).  *)
(***************************************************************************)
\* The entries of the log with the given step of the given strategy
StepsOf(step, s) == {i \in DOMAIN stratLog : stratLog[i][1] = step /\ stratLog[i][2] = s}

\* The zero-based index, among the feeds of its strategy, of the feed whose
\* market-open hook is entry i of the log
FeedIndex(i) == Cardinality({j \in StepsOf("open", stratLog[i][2]) : j < i})

\* The market-open entry of the feed that entry i of the log belongs to
OpenOf(i) == CHOOSE j \in 1 .. i :
                 /\ stratLog[j][1] = "open"
                 /\ \A k \in (j + 1) .. i : stratLog[k][1] # "open"

\* C40: over the dates fed to a stock strategy, orders are generated and
\* placed on the feeds whose zero-based index is a multiple of freq and on
\* no other, the market-open adjustment and the market-close snapshot run
\* on every date fed, and the round counter goes up by 1 per date fed.
C40_RoundsAndFrequency ==
    /\ \A s \in Strategies :
          /\ round[s] = Cardinality(StepsOf("open", s))
          /\ round[s] = Cardinality(StepsOf("close", s))
    /\ \A i \in DOMAIN stratLog :
          /\ stratLog[i][1] \in {"generate", "place"} =>
                /\ stratLog[OpenOf(i)][2] = stratLog[i][2]
                /\ stratLog[OpenOf(i)][3] = stratLog[i][3]
                /\ FeedIndex(OpenOf(i)) % freq[stratLog[i][2]] = 0
          /\ (stratLog[i][1] = "open" /\ FeedIndex(i) % freq[stratLog[i][2]] = 0) =>
                /\ i < Len(stratLog)
                /\ stratLog[i + 1] = <<"generate", stratLog[i][2], stratLog[i][3],
                                       stratLog[i + 1][4]>>
          /\ stratLog[i][1] = "open" =>
                \E j \in StepsOf("close", stratLog[i][2]) :
                    /\ j > i /\ stratLog[j][3] = stratLog[i][3]
                    /\ \A k \in (i + 1) .. j : stratLog[k][1] # "open"

\* a strategy of freq 2 has been fed two dates: it placed an order on the
\* first and generated nothing on the second, where it was opened and closed
C40_Witness ==
    \E s \in Strategies :
        /\ freq[s] = 2 /\ round[s] = 2
        /\ \E i \in StepsOf("place", s) : stratLog[i][3] = 1
        /\ \E i \in StepsOf("open", s) : stratLog[i][3] = 2 /\ stratLog[i + 1][1] = "close"

====
